---- MODULE Spec2Model ----
(***************************************************************************)
(* Verification model of the L compiler core (oinkcat/scripting-lang):     *)
(* the module linker (compiler/linker.py), the compiled-module serializer  *)
(* and loader, the code generator (compiler/code_gen.py) and the parser's  *)
(* root-block ordering (compiler/l_parser.py).                             *)
(***************************************************************************)
EXTENDS Integers, Sequences, FiniteSets, TLC

VARIABLES
    \* ---- Linker (linker.py, class Linker) ----
    lk_pc,        \* "run" while link() is executing, "done" once it returned
    lk_stack,     \* activation records of merge_imports, innermost last
    all_imports,  \* Linker.all_imports
    main_mod,     \* Linker.main_mod as handed to the constructor
    calls,        \* how many times get_dependency was called, per name
    fetched,      \* name and n_globals of each module the provider returned
    linked,       \* the module link() returned
    lk_steps      \* steps link() has taken: loop iterations and returns

lkVars == <<lk_pc, lk_stack, all_imports, main_mod, calls, fetched, linked,
            lk_steps>>

VARIABLES
    \* ---- CompiledModule.save and CompiledModuleLoader (linker.py) ----
    sv_mod,         \* the module save() is called on
    out_lines,      \* the lines save() wrote to the file
    ld_pc,          \* where load() is: "save", "open", "sections", the
                    \* section being read, "returned" or "raised"
    ld_next,        \* position in out_lines of the line next_line reads next
    ld_line,        \* CompiledModuleLoader.line
    loaded_module   \* the module load() is filling

svVars == <<sv_mod, out_lines, ld_pc, ld_next, ld_line, loaded_module>>

VARIABLES
    \* ---- CodeGen (code_gen.py) ----
    cg_pc,               \* where generate() is in the root block:
                         \* "directives", "defs", "func_head", "func_body",
                         \* "main", then "done" or "error"
    scopes,              \* CodeGen.scopes, each with its parent's position
    current_scope,       \* position in scopes of CodeGen.current_scope
    generated,           \* CodeGen.generated
    outer_var_gen_idxs,  \* CodeGen.outer_var_gen_idxs
    last_jmp_id,         \* CodeGen.last_jmp_id
    shared_vars,         \* CodeGen.shared_vars
    defined_funcs,       \* CodeGen.defined_funcs
    functions_refs,      \* CodeGen.functions_refs
    const_data,          \* CodeGen.const_data
    raised,              \* the exception generate() ended with, or None
    visited              \* what the walk has visited: statements, functions

cgVars == <<cg_pc, scopes, current_scope, generated, outer_var_gen_idxs,
            last_jmp_id, shared_vars, defined_funcs, functions_refs,
            const_data, raised, visited>>

VARIABLES
    \* ---- Parser (l_parser.py) ----
    ps_pc,        \* "parsing" inside parse_to_ast(), "returned" after it
    root_node,    \* Parser.root_node.statements
    ps_stack,     \* the root statement and the functions being parsed
    auto_id,      \* Parser.auto_id
    ps_clock      \* number of nodes begun or completed so far

psVars == <<ps_pc, root_node, ps_stack, auto_id, ps_clock>>

VARIABLES
    \* ---- Tokenizer (tokenizer.py) ----
    tk_pc,        \* "ready" while the parser may call next() and hold()
    tk_gen,       \* Tokenizer.gen: the tokens the generator has yet to yield
    t_type,       \* Tokenizer.t_type
    t_val,        \* Tokenizer.t_val
    retry,        \* Tokenizer.retry
    tk_log,       \* the calls made so far, each with the token it left
    \* ---- Tokenizer.tokenize_line ----
    lx_pc,        \* "scan", then "returned", "InvalidSequence" or "Exception"
    lx_line,      \* the line, a sequence of characters
    prev_end,     \* prev_end of tokenize_line
    lx_tokens,    \* the tokens yielded so far
    lx_seq,       \* the seq an InvalidSequence carries
    tok_val       \* the string token interpolate_string is called with

tkVars == <<tk_pc, tk_gen, t_type, t_val, retry, tk_log>>

lxVars == <<lx_pc, lx_line, prev_end, lx_tokens, lx_seq, tok_val>>

VARIABLES
    \* ---- a run of the generated main code ----
    vm_pc,        \* "idle", "running", then "halted" or "stuck"
    vm_ip,        \* position in generated of the op executed next
    vm_stack,     \* the operand stack
    vm_out,       \* the values emitted so far
    vm_evals,     \* the conditions evaluated so far, in order
    vm_env        \* what each condition of the if statement evaluates to

vmVars == <<vm_pc, vm_ip, vm_stack, vm_out, vm_evals, vm_env>>

vars == <<lkVars, svVars, cgVars, psVars, tkVars, lxVars, vmVars>>

\* the variables of the other components, which a component leaves alone
notLink == <<svVars, cgVars, psVars, tkVars, lxVars, vmVars>>
notSave == <<lkVars, cgVars, psVars, tkVars, lxVars, vmVars>>
notGen == <<lkVars, svVars, psVars, tkVars, lxVars, vmVars>>
notParse == <<lkVars, svVars, cgVars, tkVars, lxVars, vmVars>>
notTok == <<lkVars, svVars, cgVars, psVars, lxVars, vmVars>>
notLex == <<lkVars, svVars, cgVars, psVars, tkVars, vmVars>>
notRun == <<lkVars, svVars, cgVars, psVars, tkVars, lxVars>>

\* ------------------------------------------------------------------------
\* Bounds of the model
\* ------------------------------------------------------------------------
MaxImports == 2     \* longest import list of one module
MaxGlobals == 1     \* most global slots of one module
MaxSeed == 2        \* random.randint(1, MaxSeed) instead of (1, 100)

\* ------------------------------------------------------------------------
\* Generic helpers
\* ------------------------------------------------------------------------
Range(s) == {s[i] : i \in 1..Len(s)}

RECURSIVE SumSeq(_)
SumSeq(s) == IF s = <<>> THEN 0 ELSE Head(s) + SumSeq(Tail(s))

RECURSIVE Flatten(_)
Flatten(ss) == IF ss = <<>> THEN <<>> ELSE Head(ss) \o Flatten(Tail(ss))

None == [t |-> "none"]

\* ------------------------------------------------------------------------
\* Each component is explored by a specification of its own; there the
\* other components rest in these states
\* ------------------------------------------------------------------------
IdleSave ==
    /\ sv_mod = None
    /\ out_lines = <<>>
    /\ ld_pc = "idle"
    /\ ld_next = 0
    /\ ld_line = <<>>
    /\ loaded_module = None

IdleTok ==
    /\ tk_pc = "idle"
    /\ tk_gen = <<>>
    /\ t_type = "None"
    /\ t_val = "None"
    /\ retry = FALSE
    /\ tk_log = <<>>

IdleLex ==
    /\ lx_pc = "idle"
    /\ lx_line = <<>>
    /\ prev_end = 0
    /\ lx_tokens = <<>>
    /\ lx_seq = <<>>
    /\ tok_val = <<>>

IdleRun ==
    /\ vm_pc = "idle"
    /\ vm_ip = 0
    /\ vm_stack = <<>>
    /\ vm_out = <<>>
    /\ vm_evals = <<>>
    /\ vm_env = <<>>

IdleParse ==
    /\ ps_pc = "idle"
    /\ root_node = <<>>
    /\ ps_stack = <<>>
    /\ auto_id = 0
    /\ ps_clock = 0

IdleGen ==
    /\ cg_pc = "idle"
    /\ scopes = <<>>
    /\ current_scope = 0
    /\ generated = <<>>
    /\ outer_var_gen_idxs = <<>>
    /\ last_jmp_id = 0
    /\ shared_vars = <<>>
    /\ defined_funcs = {}
    /\ functions_refs = {}
    /\ const_data = <<>>
    /\ raised = None
    /\ visited = None

\* ------------------------------------------------------------------------
\* Opcodes and their arguments (linker.py:17-23, code_gen.py emit sites)
\* ------------------------------------------------------------------------
OP_CALL_UDF == "call.udf"
OP_REF_UDF == "mk_ref.udf"
OP_LDCONST == "load.const"
OP_LOAD == "load"
OP_STORE == "store"
OP_LDGLOBAL == "load.global"
OP_STGLOBAL == "store.global"

\* An all-digits argument "k"
IntArg(k) == [t |-> "int", v |-> k]
\* A local slot argument "#k"
VarArg(k) == [t |-> "var", v |-> k]
\* A function name, bare ("f", mod = "") or qualified ("m::f")
NameArg(m, f) == [t |-> "name", mod |-> m, fn |-> f]
\* A jump label name such as IF_END_100001
LblArg(k, id) == [t |-> "lbl", kind |-> k, id |-> id]

Op(o, a) == [op |-> o, arg |-> a]
\* A label definition line "NAME:" (code_gen.py emit_label)
LabelDef(k, id) == [op |-> "label:", arg |-> LblArg(k, id)]
\* A function label "name.arity:", optionally "mod::name.arity:"
FuncLabel(m, f, n) == [mod |-> m, fn |-> f, ar |-> n]

\* ------------------------------------------------------------------------
\* CompiledModule (linker.py:25-89)
\* ------------------------------------------------------------------------
\* CompiledModule.__init__
CompiledModule(nm) ==
    [name |-> nm, refs |-> {}, imports |-> <<>>, shared_vars |-> <<>>,
     const_data |-> <<>>, functions |-> <<>>, code_lines |-> <<>>,
     n_globals |-> 0]

\* _transform_function_defs that leaves every label as it is
TransformFunctionDefsKeepsBare(m) == m.functions

\* CompiledModule._transform_function_defs: prepend the module name to every
\* function label that holds no "::" yet
TransformFunctionDefs(m) ==
    [i \in 1..Len(m.functions) |->
        LET f == m.functions[i] IN
        IF f.label.mod # "" THEN f
        ELSE [f EXCEPT !.label = FuncLabel(m.name, f.label.fn, f.label.ar)]]

\* One iteration of _transform_code that relocates store and load # in
\* function code as well (the root test left out)
TransformItemShiftsLocals(m, item, offsets, root) ==
    IF item.op = OP_CALL_UDF \/ item.op = OP_REF_UDF THEN
        IF item.arg.mod = "" /\ item.arg.fn \notin Range(m.imports)
        THEN [item EXCEPT !.arg = NameArg(m.name, item.arg.fn)]
        ELSE item
    ELSE IF item.op = OP_LDCONST THEN
        IF item.arg.t = "int"
        THEN [item EXCEPT !.arg = IntArg(item.arg.v + offsets.data)]
        ELSE item
    ELSE IF item.op = OP_LOAD /\ item.arg.t = "var" THEN
        [item EXCEPT !.arg = VarArg(item.arg.v + offsets.global)]
    ELSE IF item.op \in {OP_LDGLOBAL, OP_STORE, OP_STGLOBAL} THEN
        [item EXCEPT !.arg = IntArg(item.arg.v + offsets.global)]
    ELSE item

\* One iteration of the loop of CompiledModule._transform_code
TransformItem(m, item, offsets, root) ==
    IF item.op = OP_CALL_UDF \/ item.op = OP_REF_UDF THEN
        LET is_bare == item.arg.mod = "" IN
        IF is_bare /\ item.arg.fn \notin Range(m.imports)
        THEN [item EXCEPT !.arg = NameArg(m.name, item.arg.fn)]
        ELSE item
    ELSE IF item.op = OP_LDCONST THEN
        IF item.arg.t = "int"
        THEN [item EXCEPT !.arg = IntArg(item.arg.v + offsets.data)]
        ELSE item
    ELSE IF root /\ item.op = OP_LOAD /\ item.arg.t = "var" THEN
        [item EXCEPT !.arg = VarArg(item.arg.v + offsets.global)]
    ELSE IF item.op \in {OP_LDGLOBAL, OP_STORE, OP_STGLOBAL} THEN
        IF item.op = OP_STGLOBAL \/ item.op = OP_LDGLOBAL \/ root
        THEN [item EXCEPT !.arg = IntArg(item.arg.v + offsets.global)]
        ELSE item
    ELSE item

\* CompiledModule._transform_code
TransformCode(m, code, offsets, root) ==
    [i \in 1..Len(code) |-> TransformItem(m, code[i], offsets, root)]

\* CompiledModule.transform
Transform(m, offsets) ==
    LET defs == TransformFunctionDefs(m) IN
    [m EXCEPT
        !.functions = [i \in 1..Len(defs) |->
            [defs[i] EXCEPT !.code = TransformCode(m, defs[i].code, offsets, FALSE)]],
        !.code_lines = TransformCode(m, m.code_lines, offsets, TRUE)]

\* ------------------------------------------------------------------------
\* Merger (linker.py:238-281)
\* ------------------------------------------------------------------------
\* Merger.append_module_contents
AppendModuleContents(dest, src) ==
    [dest EXCEPT
        !.refs = dest.refs \cup src.refs,
        !.shared_vars = dest.shared_vars \o src.shared_vars,
        !.const_data = dest.const_data \o src.const_data,
        !.functions = dest.functions \o src.functions,
        !.code_lines = dest.code_lines \o src.code_lines]

\* The module Merger.merge returns with a wrong global count (counts only
\* the accumulator's slots)
MergeDropsRefGlobals(accum, ref) ==
    LET ref_t == Transform(ref, [global |-> 0, data |-> 0])
        m1 == AppendModuleContents(CompiledModule("result"), ref_t)
        accum_t == Transform(accum, [global |-> 0, data |-> Len(ref.const_data)])
        m2 == AppendModuleContents(m1, accum_t)
    IN [m2 EXCEPT !.n_globals = accum.n_globals]

\* Merger.merge with the data offset of the accumulator left at 0
MergeKeepsDataIndices(accum, ref) ==
    LET ref_t == Transform(ref, [global |-> 0, data |-> 0])
        m1 == AppendModuleContents(CompiledModule("result"), ref_t)
        accum_t == Transform(accum, [global |-> ref.n_globals, data |-> 0])
        m2 == AppendModuleContents(m1, accum_t)
    IN [m2 EXCEPT !.n_globals = accum.n_globals + ref.n_globals]

\* Merger.merge
Merge(accum, ref) ==
    LET ref_t == Transform(ref, [global |-> 0, data |-> 0])
        m1 == AppendModuleContents(CompiledModule("result"), ref_t)
        offsets == [global |-> ref.n_globals, data |-> Len(ref.const_data)]
        accum_t == Transform(accum, offsets)
        m2 == AppendModuleContents(m1, accum_t)
    IN [m2 EXCEPT !.n_globals = accum.n_globals + ref.n_globals]

\* ------------------------------------------------------------------------
\* Jump-label ids (code_gen.py:102, 295-297)
\* ------------------------------------------------------------------------
JmpIdBase == 100000
\* CodeGen.__init__: last_jmp_id = random.randint(1, 100) * 100000
SeedJmpId(r) == r * JmpIdBase
\* CodeGen.new_jmp_id
\* new_jmp_id that hands out the id it handed out before
NewJmpIdSame(jmp_id) == jmp_id

NewJmpId(jmp_id) == jmp_id + 1

\* ------------------------------------------------------------------------
\* The modules the dependency provider hands to the linker
\* (compiler/__init__.py: LocalDependencyProvider.get_dependency compiles
\* the source of the module with CodeGen, compile_module_stream)
\* ------------------------------------------------------------------------
ModNames == {"main", "a", "b"}

\* The import lists a module called nm may declare: distinct names
\* (visit_add_module_ref, code_gen.py:677-678) of other modules
ImportLists(nm) ==
    {s \in UNION {[1..n -> ModNames \ {nm}] : n \in 0..MaxImports} :
        \A i, j \in 1..Len(s) : i # j => s[i] # s[j]}

\* the variable v0 of module nm, which a top-level use directive shares
\* with the host
SharedVar(nm) == <<nm, "v0">>

\* the modules whose source starts with "use v0"; the globals of the other
\* modules are all their own
SharingModules == {"main", "b"}

\* What CodeGen writes out for a source of this shape (g globals, the first
\* of them shared in a sharing module, a function f with an if statement, a
\* function a, main code with a loop):
\*     import <imps>
\*     use v0
\*     func f()  t = <global 0> ... <store to global g-1> ... f() m::f() end
\*     func a()  end
\*     v0 = ..; v1 = ..; f(); a(); m::f(); for .. end
ProvidedModule(nm, imps, g, seed) ==
    LET id1 == NewJmpId(SeedJmpId(seed))
        id2 == NewJmpId(id1)
        qcalls == [i \in 1..Len(imps) |-> Op(OP_CALL_UDF, NameArg(imps[i], "f"))]
        fcode ==
            <<Op(OP_STORE, IntArg(0)), Op(OP_LOAD, VarArg(0))>>
            \o (IF g > 0 THEN <<Op(OP_LDGLOBAL, IntArg(0)),
                                Op(OP_STGLOBAL, IntArg(g - 1))>> ELSE <<>>)
            \o <<Op(OP_LDCONST, IntArg(0)), Op(OP_CALL_UDF, NameArg("", "f"))>>
            \o qcalls
            \o <<Op("jmp", LblArg("IF_END", id1)), LabelDef("IF_END", id1),
                 Op("ret", None)>>
        mcode ==
            Flatten([i \in 1..g |-> <<Op(OP_STORE, IntArg(i - 1)),
                                      Op(OP_LOAD, VarArg(i - 1))>>])
            \o (IF g > 0 THEN <<Op(OP_LDGLOBAL, IntArg(g - 1))>> ELSE <<>>)
            \o <<Op(OP_LDCONST, IntArg(0)), Op(OP_CALL_UDF, NameArg("", "f")),
                 Op(OP_CALL_UDF, NameArg("", "a"))>>
            \o qcalls
            \o <<LabelDef("FOR_COND", id2), Op("jmp", LblArg("FOR_END", id2)),
                 Op("jmp", LblArg("FOR_COND", id2)), LabelDef("FOR_END", id2)>>
    IN [CompiledModule(nm) EXCEPT
            !.imports = imps,
            !.shared_vars = IF g > 0 /\ nm \in SharingModules
                            THEN <<SharedVar(nm)>> ELSE <<>>,
            !.const_data = << <<nm>> >>,
            !.functions = <<[label |-> FuncLabel("", "f", 0), code |-> fcode],
                            [label |-> FuncLabel("", "a", 0),
                             code |-> <<Op("ret", None)>>]>>,
            !.code_lines = mcode,
            !.n_globals = g]

\* ------------------------------------------------------------------------
\* Linker (linker.py:283-315)
\* ------------------------------------------------------------------------
\* An activation of merge_imports(target_mod): the import list it iterates,
\* its result_mod and the position of the for loop
Frame(target_mod) ==
    [imports |-> target_mod.imports, result_mod |-> target_mod, i |-> 1]

Top == lk_stack[Len(lk_stack)]

SetTop(fr) == [lk_stack EXCEPT ![Len(lk_stack)] = fr]

\* Linker.__init__ followed by the call of link()
InitLink ==
    /\ \E imps \in ImportLists("main"), g \in 0..MaxGlobals, r \in 1..MaxSeed :
          main_mod = ProvidedModule("main", imps, g, r)
    /\ lk_pc = "run"
    /\ lk_stack = <<Frame(main_mod)>>
    /\ all_imports = {}
    /\ calls = [n \in ModNames |-> 0]
    /\ fetched = <<>>
    /\ linked = None
    /\ lk_steps = 0
    /\ IdleSave
    /\ IdleGen
    /\ IdleParse
    /\ IdleTok
    /\ IdleLex
    /\ IdleRun

\* LocalDependencyProvider.get_dependency(mod_name): the module compiled
\* from the source called mod_name; a dependency declares at least one
\* global, and the source called main is the main module's own source,
\* compiled again with a seed of its own
Dependency(mod_name) ==
    IF mod_name = "main"
    THEN {ProvidedModule("main", main_mod.imports, main_mod.n_globals, r) :
            r \in 1..MaxSeed}
    ELSE {ProvidedModule(mod_name, imps, g, r) :
            imps \in ImportLists(mod_name), g \in 1..MaxGlobals, r \in 1..MaxSeed}

\* merge_imports, line 302 with the visited test left out (every import is
\* taken for unvisited)
VisitedNever(ref_mod_name) == FALSE

\* merge_imports, line 302: ref_mod_name in self.all_imports
Visited(ref_mod_name) == ref_mod_name \in all_imports

\* merge_imports, lines 302-303: the import was visited, continue
SkipImport ==
    /\ lk_pc = "run"
    /\ Top.i <= Len(Top.imports)
    /\ Visited(Top.imports[Top.i])
    /\ lk_stack' = SetTop([Top EXCEPT !.i = @ + 1])
    /\ lk_steps' = lk_steps + 1
    /\ UNCHANGED <<lk_pc, all_imports, main_mod, calls, fetched, linked>>
    /\ UNCHANGED notLink

\* merge_imports, lines 305-307: fetch the dependency, mark it, recurse
GetDependency ==
    /\ lk_pc = "run"
    /\ Top.i <= Len(Top.imports)
    /\ ~Visited(Top.imports[Top.i])
    /\ \E ref_mod \in Dependency(Top.imports[Top.i]) :
          /\ calls' = [calls EXCEPT ![Top.imports[Top.i]] = @ + 1]
          /\ all_imports' = all_imports \cup {ref_mod.name}
          /\ fetched' = Append(fetched, [name |-> ref_mod.name,
                                         n_globals |-> ref_mod.n_globals])
          /\ lk_stack' = Append(lk_stack, Frame(ref_mod))
    /\ lk_steps' = lk_steps + 1
    /\ UNCHANGED <<lk_pc, main_mod, linked>>
    /\ UNCHANGED notLink

\* merge_imports, lines 310 and 308: the recursive call returns its
\* result_mod, the caller merges it into its own and goes on
MergeReturn ==
    /\ lk_pc = "run"
    /\ Len(lk_stack) > 1
    /\ Top.i > Len(Top.imports)
    /\ LET ref_mod == Top.result_mod
           caller == lk_stack[Len(lk_stack) - 1]
           merged == Merge(caller.result_mod, ref_mod)
       IN /\ lk_stack' = [SubSeq(lk_stack, 1, Len(lk_stack) - 1)
                            EXCEPT ![Len(lk_stack) - 1] =
                                [caller EXCEPT !.result_mod = merged,
                                               !.i = @ + 1]]
    /\ lk_steps' = lk_steps + 1
    /\ UNCHANGED <<lk_pc, all_imports, main_mod, calls, fetched, linked>>
    /\ UNCHANGED notLink

\* link, line 315: the outermost merge_imports returns
LinkReturn ==
    /\ lk_pc = "run"
    /\ Len(lk_stack) = 1
    /\ Top.i > Len(Top.imports)
    /\ linked' = Top.result_mod
    /\ lk_pc' = "done"
    /\ lk_stack' = <<>>
    /\ lk_steps' = lk_steps + 1
    /\ UNCHANGED <<all_imports, main_mod, calls, fetched>>
    /\ UNCHANGED notLink

NextLink == SkipImport \/ GetDependency \/ MergeReturn \/ LinkReturn

SpecLink == InitLink /\ [][NextLink]_vars

IdleLink ==
    /\ lk_pc = "idle"
    /\ lk_stack = <<>>
    /\ all_imports = {}
    /\ main_mod = None
    /\ calls = [n \in ModNames |-> 0]
    /\ fetched = <<>>
    /\ linked = None
    /\ lk_steps = 0

\* ------------------------------------------------------------------------
\* Properties of the linker
\* ------------------------------------------------------------------------
\* Every op of a module, function code first, then main code
AllCode(m) ==
    Flatten([i \in 1..Len(m.functions) |-> m.functions[i].code]) \o m.code_lines

IsGlobalRef(item) == item.op \in {OP_LDGLOBAL, OP_STGLOBAL}

\* C1: after link(), n_globals of the result is the sum of n_globals of the
\* main module and of every module fetched and merged, and every
\* load.global k / store.global k of the result has k < n_globals(result).
C1_GlobalsSumAndRange ==
    lk_pc = "done" =>
        /\ linked.n_globals = main_mod.n_globals
              + SumSeq([i \in 1..Len(fetched) |-> fetched[i].n_globals])
        /\ \A i \in 1..Len(AllCode(linked)) :
              IsGlobalRef(AllCode(linked)[i])
                  => AllCode(linked)[i].arg.v < linked.n_globals

\* C1 witness: two modules were merged into a main module with a global and
\* a global reference of the result was relocated
C1_Witness ==
    /\ lk_pc = "done"
    /\ Len(fetched) >= 2
    /\ main_mod.n_globals >= 1
    /\ \E i \in 1..Len(AllCode(linked)) :
          IsGlobalRef(AllCode(linked)[i]) /\ AllCode(linked)[i].arg.v >= 2

\* The index an op carries: its integer argument, for the ops whose argument
\* is a slot or a data index
IsIndexOp(item) ==
    \/ item.op \in {OP_LDGLOBAL, OP_STGLOBAL, OP_STORE}
    \/ item.op = OP_LOAD /\ item.arg.t = "var"
    \/ item.op = OP_LDCONST /\ item.arg.t = "int"

\* code is code0 with g added to the indices chosen by shifted, and every
\* other index as it was
Relocated(code, code0, g, shifted(_)) ==
    /\ Len(code) = Len(code0)
    /\ \A k \in 1..Len(code0) :
          /\ code[k].op = code0[k].op
          /\ IsIndexOp(code0[k]) /\ code0[k].op # OP_LDCONST =>
                code[k].arg.v = code0[k].arg.v + (IF shifted(code0[k]) THEN g ELSE 0)

IsMainSlotRef(item) ==
    IsGlobalRef(item) \/ item.op = OP_STORE
        \/ (item.op = OP_LOAD /\ item.arg.t = "var")

NoShift(item) == FALSE

\* What the claim says of out = merge(accum, ref)
MergeEffect(accum, ref, out) ==
    LET nr == Len(ref.functions)
        g == ref.n_globals
    IN /\ out.n_globals = accum.n_globals + g
       /\ Len(out.functions) = nr + Len(accum.functions)
       /\ \A i \in 1..nr :
             /\ Relocated(out.functions[i].code, ref.functions[i].code, g, NoShift)
             /\ \A k \in 1..Len(ref.functions[i].code) :
                   IsIndexOp(ref.functions[i].code[k]) =>
                       out.functions[i].code[k].arg = ref.functions[i].code[k].arg
             /\ ref.functions[i].label.mod = "" =>
                   out.functions[i].label =
                       FuncLabel(ref.name, ref.functions[i].label.fn,
                                 ref.functions[i].label.ar)
       /\ \A j \in 1..Len(accum.functions) :
             Relocated(out.functions[nr + j].code, accum.functions[j].code, g,
                       IsGlobalRef)
       /\ Relocated(SubSeq(out.code_lines, 1, Len(ref.code_lines)),
                    ref.code_lines, g, NoShift)
       /\ Relocated(SubSeq(out.code_lines, Len(ref.code_lines) + 1,
                           Len(out.code_lines)),
                    accum.code_lines, g, IsMainSlotRef)

\* C2: merge(accum, ref) adds ref.n_globals to every load.global /
\* store.global of accum and to every store / load # of accum's main code,
\* leaves store / load # in accum's functions and every index of ref as they
\* were, and renames ref's label f.k: to <ref.name>::f.k:.
C2_MergeRelocates ==
    [][Len(lk_stack) > 1 /\ Len(lk_stack') = Len(lk_stack) - 1 =>
          MergeEffect(lk_stack[Len(lk_stack) - 1].result_mod,
                      lk_stack[Len(lk_stack)].result_mod,
                      lk_stack'[Len(lk_stack')].result_mod)]_vars

\* C2 witness: the dependency a, with one global and the function f.0, was
\* merged into a main module that has a global: n_globals is 1 + 1, main's
\* store 0 became store 1 and the label is a::f.0:
C2_Witness ==
    /\ lk_pc = "run"
    /\ Len(lk_stack) = 1
    /\ fetched = <<[name |-> "a", n_globals |-> 1]>>
    /\ main_mod.n_globals = 1
    /\ Top.result_mod.n_globals = 2
    /\ Top.result_mod.functions[1].label = FuncLabel("a", "f", 0)
    /\ \E k \in 1..Len(Top.result_mod.code_lines) :
          Top.result_mod.code_lines[k] = Op(OP_STORE, IntArg(1))

IsBareCall(item) == item.op = OP_CALL_UDF /\ item.arg.mod = ""

\* C3 as claimed: every unqualified call.udf name of the linked module has a
\* function label *::name.arity: there.
C3_Original ==
    lk_pc = "done" =>
        \A i \in 1..Len(AllCode(linked)) :
            IsBareCall(AllCode(linked)[i]) =>
                \E j \in 1..Len(linked.functions) :
                    /\ linked.functions[j].label.fn = AllCode(linked)[i].arg.fn
                    /\ linked.functions[j].label.mod # ""

\* C3 amended: every unqualified call.udf name of the linked module names a
\* function label there: name.arity: when nothing was merged (link() returns
\* the main module as it is), <module>::name.arity: once a module was merged.
C3_BareCallHasLabel ==
    lk_pc = "done" =>
        \A i \in 1..Len(AllCode(linked)) :
            IsBareCall(AllCode(linked)[i]) =>
                \E j \in 1..Len(linked.functions) :
                    /\ linked.functions[j].label.fn = AllCode(linked)[i].arg.fn
                    /\ (linked.functions[j].label.mod = "") <=> (fetched = <<>>)

\* C3 witness: a module was merged and an unqualified call.udf is left
C3_Witness ==
    /\ lk_pc = "done"
    /\ fetched # <<>>
    /\ \E i \in 1..Len(AllCode(linked)) : IsBareCall(AllCode(linked)[i])

IsLabelDef(item) == item.op = "label:"

\* C4: every label, function label or jump label, occurs at most once in
\* the linked module.
C4_LabelsUnique ==
    lk_pc = "done" =>
        /\ \A i, j \in 1..Len(linked.functions) :
              i # j => linked.functions[i].label # linked.functions[j].label
        /\ \A i, j \in 1..Len(AllCode(linked)) :
              i # j /\ IsLabelDef(AllCode(linked)[i]) /\ IsLabelDef(AllCode(linked)[j])
                  => AllCode(linked)[i].arg # AllCode(linked)[j].arg

\* Each of the at most |ModNames| + 1 activations of merge_imports takes one
\* step per import and one to return
StepBound == (Cardinality(ModNames) + 1) * (MaxImports + 1)

\* C6: get_dependency is called at most once per module name, and link()
\* returns: it is never stuck before it returned and takes at most
\* StepBound steps.
C6_OncePerNameAndReturns ==
    /\ \A n \in ModNames : calls[n] <= 1
    /\ lk_steps <= StepBound
    /\ lk_pc = "done" \/ ENABLED NextLink

\* C6 witness: link() returned over a graph with a cycle through main and
\* an import that was skipped as visited; each module was fetched once
C6_Witness ==
    /\ lk_pc = "done"
    /\ \A n \in ModNames : calls[n] = 1
    /\ Len(fetched) = 3

\* ------------------------------------------------------------------------
\* Text of a saved module: a line is the sequence of its characters
\* ------------------------------------------------------------------------
SECTION_REFS == <<".", "r", "e", "f", "s">>
SECTION_IMPORTS == <<".", "i", "m", "p", "o", "r", "t", "s">>
SECTION_SHARED == <<".", "s", "h", "a", "r", "e", "d">>
SECTION_DATA == <<".", "d", "a", "t", "a">>
SECTION_DEFS == <<".", "d", "e", "f", "s">>
SECTION_MAIN == <<".", "e", "n", "t", "r", "y">>

\* the text "store" of OP_STORE
OP_STORE_TEXT == <<"s", "t", "o", "r", "e">>

\* Python's None among texts: item[1], item[2] of a code item that has no
\* argument or no debug annotation
NoText == <<"None">>

Digits == {"0", "1", "2", "3", "4", "5", "6", "7", "8", "9"}

DigitValue(c) ==
    CASE c = "0" -> 0 [] c = "1" -> 1 [] c = "2" -> 2 [] c = "3" -> 3
      [] c = "4" -> 4 [] c = "5" -> 5 [] c = "6" -> 6 [] c = "7" -> 7
      [] c = "8" -> 8 [] c = "9" -> 9

\* str.startswith
StartsWith(s, prefix) ==
    Len(s) >= Len(prefix) /\ SubSeq(s, 1, Len(prefix)) = prefix

\* str.strip (next_line, linker.py:153)
RECURSIVE Strip(_)
Strip(s) ==
    IF s = <<>> THEN s
    ELSE IF Head(s) = " " THEN Strip(Tail(s))
    ELSE IF s[Len(s)] = " " THEN Strip(SubSeq(s, 1, Len(s) - 1))
    ELSE s

\* int(text) of an all-digits text
RECURSIVE ParseInt(_)
ParseInt(s) ==
    IF s = <<>> THEN 0
    ELSE 10 * ParseInt(SubSeq(s, 1, Len(s) - 1)) + DigitValue(s[Len(s)])

\* A code item [op, arg, dbg] of CompiledModule.functions / code_lines
Item(o, a, d) == [op |-> o, arg |-> a, dbg |-> d]

\* CompiledModule whose members are texts, as save() and the loader see it
TextModule(nm) ==
    [name |-> nm, refs |-> <<>>, imports |-> <<>>, shared_vars |-> <<>>,
     const_data |-> <<>>, functions |-> <<>>, code_lines |-> <<>>,
     n_globals |-> 0]

\* ------------------------------------------------------------------------
\* CompiledModule.save (linker.py:91-129)
\* ------------------------------------------------------------------------
\* write_section, lines 99-103
WriteSection(section_name, array) ==
    IF Len(array) > 0 THEN <<section_name>> \o array ELSE <<>>

\* write_code, lines 107-112, for one item
WriteItem(item) ==
    LET cmd == IF item.arg # NoText THEN item.op \o <<" ">> \o item.arg
               ELSE item.op
    IN IF item.dbg # NoText THEN cmd \o <<" ", ";", " ">> \o item.dbg ELSE cmd

WriteCode(code) == [i \in 1..Len(code) |-> WriteItem(code[i])]

Save(m) ==
    WriteSection(SECTION_REFS, m.refs)
    \o WriteSection(SECTION_IMPORTS, m.imports)
    \o WriteSection(SECTION_SHARED, m.shared_vars)
    \o WriteSection(SECTION_DATA, m.const_data)
    \o (IF Len(m.functions) > 0
        THEN <<SECTION_DEFS>>
             \o Flatten([i \in 1..Len(m.functions) |->
                    <<m.functions[i].label>> \o WriteCode(m.functions[i].code)])
        ELSE <<>>)
    \o (IF Len(m.code_lines) > 0
        THEN <<SECTION_MAIN>> \o WriteCode(m.code_lines)
        ELSE <<>>)

\* ------------------------------------------------------------------------
\* CompiledModuleLoader (linker.py:142-236)
\* ------------------------------------------------------------------------
Suffix(s, i) == SubSeq(s, i, Len(s))

\* position of the first blank of s, Len(s) + 1 if it has none: where the
\* greedy ^(\S+) of cmd_re ends
FirstSpace(s) ==
    LET blanks == {i \in 1..Len(s) : s[i] = " "}
    IN IF blanks = {} THEN Len(s) + 1
       ELSE CHOOSE i \in blanks : \A j \in blanks : i <= j

\* cmd_re, third group up to the end: s matches ' ; (#.+?\(\d+\))$'
MatchSrcInfo(s) ==
    /\ StartsWith(s, <<" ", ";", " ", "#">>)
    /\ s[Len(s)] = ")"
    /\ \E k \in 6..(Len(s) - 2) :
          s[k] = "(" /\ \A j \in (k + 1)..(Len(s) - 1) : s[j] \in Digits

\* cmd_re, second group '(?:(?! ; #)\s(.+?))?' applied to what follows the
\* opcode: the ends the lazy (.+?) may stop at, so that the rest of the line
\* is the third group or nothing
ArgEnds(after) ==
    IF Len(after) >= 2 /\ ~StartsWith(after, <<" ", ";", " ", "#">>)
    THEN {j \in 2..Len(after) :
            j = Len(after) \/ MatchSrcInfo(Suffix(after, j + 1))}
    ELSE {}

\* cmd_re.findall(line) is not empty
CmdMatches(line) ==
    /\ Len(line) > 0
    /\ line[1] # " "
    /\ LET after == Suffix(line, FirstSpace(line))
       IN ArgEnds(after) # {} \/ after = <<>> \/ MatchSrcInfo(after)

\* split_cmd_parts, lines 156-162, of a line that cmd_re matches
SplitCmdParts(line) ==
    LET e == FirstSpace(line)
        after == Suffix(line, e)
        ends == ArgEnds(after)
        j == CHOOSE x \in ends : \A y \in ends : x <= y
        rest == IF ends # {} THEN Suffix(after, j + 1) ELSE after
    IN Item(SubSeq(line, 1, e - 1),
            IF ends # {} THEN SubSeq(after, 2, j) ELSE NoText,
            IF rest # <<>> THEN Suffix(rest, 4) ELSE NoText)

\* func_name_regex of read_functions, line 176: '^.+\.[0-9]+:$'
IsFuncName(line) ==
    /\ Len(line) >= 4
    /\ line[Len(line)] = ":"
    /\ \E k \in 2..(Len(line) - 2) :
          line[k] = "." /\ \A j \in (k + 1)..(Len(line) - 1) : line[j] \in Digits

\* int(op_parts[1]) of read_code, line 197, returns a value
IsIntText(arg) ==
    arg # NoText /\ Len(arg) > 0 /\ \A i \in 1..Len(arg) : arg[i] \in Digits

\* The attributes CompiledModuleLoader.__init__ sets are mod_file, cmd_re
\* and line (lines 145-150): the loader has no shared_vars for line 214
LoaderHasSharedVars == FALSE

\* next_line, lines 152-154: the file has a line left (no StopIteration)
HasNextLine == ld_next <= Len(out_lines)

NextLine == Strip(out_lines[ld_next])

\* ------------------------------------------------------------------------
\* The modules that are saved: what CodeGen.write_out builds (an op carries
\* the annotation #module(line), a label carries none) for sources with
\* string literals, a function, shared variables and constant data
\* ------------------------------------------------------------------------
MaxCodeLines == 2    \* most lines of main code of a saved module

IndexText(k) == <<CASE k = 0 -> "0" [] k = 1 -> "1" [] OTHER -> "2">>

CodeItems(n_shared) ==
    {Item(OP_STORE_TEXT, IndexText(n_shared), <<"#", "x", "(", "1", ")">>),
     Item(<<"l", "o", "a", "d">>, <<"\"", "a", " ", "b", "\"">>, <<"#", "x", "(", "1", ")">>),
     Item(<<"l", "o", "a", "d">>, <<"\"", "a", " ", ";", " ", "#", "b", "(", "1", ")", "\"">>, <<"#", "x", "(", "2", ")">>),
     Item(<<"I", "F", "_", "E", "N", "D", "_", "1", "0", "0", "0", "0", "1", ":">>, NoText, NoText),
     Item(<<"r", "e", "t">>, NoText, <<"#", "x", "(", "2", ")">>)}

FunctionLists ==
    {<<>>,
     <<[label |-> <<"f", ".", "1", ":">>,
        code |-> <<Item(<<"l", "o", "a", "d">>, <<"#", "0">>, <<"#", "x", "(", "3", ")">>),
                   Item(<<"r", "e", "t">>, NoText, <<"#", "x", "(", "3", ")">>)>>]>>}

SavedModulesSharing(shared) ==
    {[TextModule("x") EXCEPT
            !.refs = refs, !.imports = imports, !.shared_vars = shared,
            !.const_data = data, !.functions = funcs, !.code_lines = code,
            !.n_globals = Len(shared)
                + (IF \E i \in 1..Len(code) : code[i].op = OP_STORE_TEXT
                   THEN 1 ELSE 0)] :
        refs \in {<<>>, <<<<"m", "a", "t", "h">>>>},
        imports \in {<<>>, <<<<"a">>>>},
        data \in {<<>>, <<<<"1", " ", "2">>>>},
        funcs \in FunctionLists,
        code \in UNION {[1..n -> CodeItems(Len(shared))] : n \in 0..MaxCodeLines}}

SavedModules == SavedModulesSharing(<<>>) \cup SavedModulesSharing(<<<<"v">>>>)

InitSave ==
    /\ sv_mod \in SavedModules
    /\ out_lines = <<>>
    /\ ld_pc = "save"
    /\ ld_next = 1
    /\ ld_line = <<>>
    /\ loaded_module = None
    /\ IdleLink
    /\ IdleGen
    /\ IdleParse
    /\ IdleTok
    /\ IdleLex
    /\ IdleRun

\* m.save(out_file)
SaveModule ==
    /\ ld_pc = "save"
    /\ out_lines' = Save(sv_mod)
    /\ ld_pc' = "open"
    /\ UNCHANGED <<sv_mod, ld_next, ld_line, loaded_module>>
    /\ UNCHANGED notSave

\* load, lines 227-232, and the first next_line of read_sections, line 205;
\* StopIteration ends the load (lines 233-236)
LoadOpen ==
    /\ ld_pc = "open"
    /\ loaded_module' = TextModule(sv_mod.name)
    /\ IF HasNextLine
       THEN /\ ld_line' = NextLine
            /\ ld_next' = ld_next + 1
            /\ ld_pc' = "sections"
       ELSE /\ ld_pc' = "returned"
            /\ UNCHANGED <<ld_line, ld_next>>
    /\ UNCHANGED <<sv_mod, out_lines>>
    /\ UNCHANGED notSave

\* read_sections, lines 207-222: the section the current line names
ReadSections ==
    /\ ld_pc = "sections"
    /\ ld_pc' = CASE ld_line = SECTION_REFS -> "refs"
                  [] ld_line = SECTION_IMPORTS -> "imports"
                  [] ld_line = SECTION_SHARED -> "shared"
                  [] ld_line = SECTION_DATA -> "data"
                  [] ld_line = SECTION_DEFS -> "defs"
                  [] ld_line = SECTION_MAIN -> "entry"
                  [] OTHER -> "raised"
    /\ UNCHANGED <<sv_mod, out_lines, ld_next, ld_line, loaded_module>>
    /\ UNCHANGED notSave

\* read_section_lines, lines 164-171, one turn of its loop; when it returns
\* from the .shared section, line 214 reads self.shared_vars
ReadSectionLines ==
    /\ ld_pc \in {"refs", "imports", "shared", "data"}
    /\ IF ~HasNextLine
       THEN /\ ld_pc' = "returned"
            /\ UNCHANGED <<ld_line, ld_next, loaded_module>>
       ELSE /\ ld_line' = NextLine
            /\ ld_next' = ld_next + 1
            /\ IF StartsWith(ld_line', <<".">>)
               THEN /\ ld_pc' = IF ld_pc = "shared" /\ ~LoaderHasSharedVars
                                THEN "raised" ELSE "sections"
                    /\ UNCHANGED loaded_module
               ELSE /\ ld_pc' = ld_pc
                    /\ loaded_module' =
                          CASE ld_pc = "refs" ->
                                 [loaded_module EXCEPT !.refs = Append(@, ld_line')]
                            [] ld_pc = "imports" ->
                                 [loaded_module EXCEPT !.imports = Append(@, ld_line')]
                            [] ld_pc = "shared" ->
                                 [loaded_module EXCEPT !.shared_vars = Append(@, ld_line')]
                            [] ld_pc = "data" ->
                                 [loaded_module EXCEPT !.const_data = Append(@, ld_line')]
    /\ UNCHANGED <<sv_mod, out_lines>>
    /\ UNCHANGED notSave

\* read_functions, lines 179-188, one turn of its loop
ReadFunctions ==
    /\ ld_pc = "defs"
    /\ IF ~HasNextLine
       THEN /\ ld_pc' = "returned"
            /\ UNCHANGED <<ld_line, ld_next, loaded_module>>
       ELSE /\ ld_line' = NextLine
            /\ ld_next' = ld_next + 1
            /\ LET n == Len(loaded_module.functions)
               IN CASE IsFuncName(ld_line') ->
                         /\ loaded_module' = [loaded_module EXCEPT !.functions =
                                Append(@, [label |-> ld_line', code |-> <<>>])]
                         /\ ld_pc' = ld_pc
                    [] ~IsFuncName(ld_line') /\ StartsWith(ld_line', <<".">>) ->
                         /\ ld_pc' = "sections"
                         /\ UNCHANGED loaded_module
                    [] OTHER ->
                         IF n = 0 \/ ~CmdMatches(ld_line')
                         THEN /\ ld_pc' = "raised"
                              /\ UNCHANGED loaded_module
                         ELSE /\ loaded_module' = [loaded_module EXCEPT
                                    !.functions[n].code =
                                        Append(@, SplitCmdParts(ld_line'))]
                              /\ ld_pc' = ld_pc
    /\ UNCHANGED <<sv_mod, out_lines>>
    /\ UNCHANGED notSave

\* read_code, lines 193-200, one turn of its loop
ReadCode ==
    /\ ld_pc = "entry"
    /\ IF ~HasNextLine
       THEN /\ ld_pc' = "returned"
            /\ UNCHANGED <<ld_line, ld_next, loaded_module>>
       ELSE /\ ld_line' = NextLine
            /\ ld_next' = ld_next + 1
            /\ IF ~CmdMatches(ld_line')
               THEN /\ ld_pc' = "raised"
                    /\ UNCHANGED loaded_module
               ELSE LET op_parts == SplitCmdParts(ld_line')
                    IN IF op_parts.op = OP_STORE_TEXT /\ ~IsIntText(op_parts.arg)
                       THEN /\ ld_pc' = "raised"
                            /\ UNCHANGED loaded_module
                       ELSE /\ ld_pc' = ld_pc
                            /\ loaded_module' = [loaded_module EXCEPT
                                  !.code_lines = Append(@, op_parts),
                                  !.n_globals =
                                     IF op_parts.op = OP_STORE_TEXT
                                        /\ ParseInt(op_parts.arg) + 1 > @
                                     THEN ParseInt(op_parts.arg) + 1 ELSE @]
    /\ UNCHANGED <<sv_mod, out_lines>>
    /\ UNCHANGED notSave

NextSave ==
    \/ SaveModule
    \/ LoadOpen
    \/ ReadSections
    \/ ReadSectionLines
    \/ ReadFunctions
    \/ ReadCode

SpecSave == InitSave /\ [][NextSave]_vars

\* ------------------------------------------------------------------------
\* C5: save followed by load
\* ------------------------------------------------------------------------
\* C5: for every compiled module, load applied to the text written by save
\* completes (it raises nothing) and the module it returns has the same
\* refs, shared variables, data records, function labels and, line by line,
\* the same (opcode, argument, debug annotation) triples
C5_SaveLoadRoundTrip ==
    /\ ld_pc # "raised"
    /\ ld_pc = "returned" =>
          /\ loaded_module.refs = sv_mod.refs
          /\ loaded_module.shared_vars = sv_mod.shared_vars
          /\ loaded_module.const_data = sv_mod.const_data
          /\ loaded_module.functions = sv_mod.functions
          /\ loaded_module.code_lines = sv_mod.code_lines

\* ------------------------------------------------------------------------
\* Code generator: scopes and emitted ops (code_gen.py:9-36, 143-222,
\* 295-314)
\* ------------------------------------------------------------------------
MaxStmts == 2     \* statements visited in one module
MaxFuncs == 2     \* function definitions (named and lambdas) of one module
MaxUses == 1      \* use directives at the top of one block

\* the name the statements read, assign and declare with use; a parameter
\* list may put another local in front of it
VarNames == {"x"}

\* a function name is any identifier; lambdas are named by the parser
FuncNames == {"f", "global"}

LambdaName(k) == IF k = 1 THEN "$lambda_1" ELSE "$lambda_2"

ParamLists == {<<>>, <<"x">>, <<"y", "x">>}

\* Scope.parent of the global scope (None)
NoParent == 0

\* Scope.__init__; parent is the position of the parent scope in scopes
Scope(name, parent) ==
    [name |-> name, parent |-> parent, variables |-> <<>>,
     outer_var_refs |-> {}, loops |-> <<>>]

\* Scope.is_global
IsGlobal(scope) == scope.name = "global"

\* the None that put_scope_var and get_scope_var return for an index
NoIdx == -1

\* vars[var_name]: indices are given in order of insertion, from zero
IndexOf(variables, var_name) ==
    (CHOOSE i \in 1..Len(variables) : variables[i] = var_name) - 1

StrArg(s) == [t |-> "str", v |-> s]

NumArg(v) == [t |-> "num", v |-> v]

IdArg(name) == [t |-> "id", name |-> name]

OuterArg(unwind_level, var_idx) == [t |-> "outer", u |-> unwind_level, i |-> var_idx]

\* str(var_idx)
StrOfIdx(var_idx) == IF var_idx = NoIdx THEN StrArg("None") ELSE IntArg(var_idx)

\* the state of the generator that the visitors work on
CG == [scopes |-> scopes, current_scope |-> current_scope,
       generated |-> generated, outer_var_gen_idxs |-> outer_var_gen_idxs,
       last_jmp_id |-> last_jmp_id, shared_vars |-> shared_vars,
       defined_funcs |-> defined_funcs, functions_refs |-> functions_refs,
       const_data |-> const_data]

SetCG(cg) ==
    /\ scopes' = cg.scopes
    /\ current_scope' = cg.current_scope
    /\ generated' = cg.generated
    /\ outer_var_gen_idxs' = cg.outer_var_gen_idxs
    /\ last_jmp_id' = cg.last_jmp_id
    /\ shared_vars' = cg.shared_vars
    /\ defined_funcs' = cg.defined_funcs
    /\ functions_refs' = cg.functions_refs
    /\ const_data' = cg.const_data

\* get_scope
GetScope(cg) == cg.scopes[cg.current_scope]

\* get_scope_by_name, lines 148-159: scopes[0] for None, else the first
\* scope of that name (0 when there is none: CodeGenError)
GetScopeByName(cg, name) ==
    IF name = "None" THEN 1
    ELSE LET found == {i \in 1..Len(cg.scopes) : cg.scopes[i].name = name}
         IN IF found = {} THEN 0
            ELSE CHOOSE i \in found : \A j \in found : i <= j

\* add_scope
AddScope(cg, name, parent) ==
    [cg EXCEPT !.scopes = Append(@, Scope(name, parent)),
               !.current_scope = Len(cg.scopes) + 1]

\* put_scope_var, lines 169-181: the index it returns
PutScopeVarIdx(cg, var_name) ==
    LET scope == GetScope(cg)
    IN IF var_name \in Range(scope.variables)
       THEN IndexOf(scope.variables, var_name)
       ELSE IF var_name \in scope.outer_var_refs THEN NoIdx
       ELSE Len(scope.variables)

\* put_scope_var, lines 169-181: what it does to the scope
PutScopeVar(cg, var_name) ==
    LET scope == GetScope(cg)
    IN IF var_name \in Range(scope.variables)
          \/ var_name \in scope.outer_var_refs
       THEN cg
       ELSE [cg EXCEPT !.scopes[cg.current_scope].variables =
                            Append(@, var_name)]

\* get_scope_var over find_scope_var, lines 183-205: the index of a local,
\* None for a name of outer_var_refs (-1) and for an unknown name
GetScopeVar(cg, var_name) ==
    LET scope == GetScope(cg)
    IN IF var_name \in Range(scope.variables)
       THEN IndexOf(scope.variables, var_name)
       ELSE NoIdx

\* emit, lines 299-309
Emit(cg, op, arg) == [cg EXCEPT !.generated = Append(@, Op(op, arg))]

\* emit_label, lines 311-314, for a jump label
EmitLabel(cg, kind, id) ==
    [cg EXCEPT !.generated = Append(@, LabelDef(kind, id))]

\* CodeGen.last_op: the op emitted last
LastOp(cg) ==
    IF cg.generated = <<>> THEN "None"
    ELSE cg.generated[Len(cg.generated)].op

\* add_outer_var_ref, lines 217-222; the entry also keeps the op and the
\* name that are emitted at op_idx
AddOuterVarRef(cg, op, name) ==
    Emit([cg EXCEPT !.outer_var_gen_idxs =
                Append(@, [op_idx |-> Len(cg.generated) + 1,
                           scope |-> cg.current_scope,
                           op |-> op, var_name |-> name])],
         IF op = OP_LOAD THEN "!load.!" ELSE "!store.!", IdArg(name))

\* ------------------------------------------------------------------------
\* Code generator: visitors (code_gen.py:324-345, 421-429, 512-569, 578-585,
\* 656-667)
\* ------------------------------------------------------------------------
\* visit_simple_literal of a number
VisitSimpleLiteral(cg, value) == Emit(cg, OP_LOAD, NumArg(value))

\* visit_variable, lines 334-345, of a name that is no builtin
VisitVariable(cg, name) ==
    LET var_idx == GetScopeVar(cg, name)
    IN IF var_idx # NoIdx
       THEN Emit(cg, OP_LOAD, VarArg(var_idx))
       ELSE AddOuterVarRef(cg, OP_LOAD, name)

\* visit_assign, lines 421-429, of  name = <number>
VisitAssign(cg, name, value) ==
    LET c1 == VisitSimpleLiteral(cg, value)
        var_idx == PutScopeVarIdx(c1, name)
        c2 == PutScopeVar(c1, name)
    IN IF var_idx # NoIdx
       THEN Emit(c2, OP_STORE, IntArg(var_idx))
       ELSE AddOuterVarRef(c2, OP_STORE, name)

\* visit_emit, lines 578-585, of  emit name
VisitEmit(cg, name) == Emit(VisitVariable(cg, name), "emit", None)

\* push_loop / pop_loop of the current scope
PushLoop(cg, id) ==
    [cg EXCEPT !.scopes[cg.current_scope].loops = Append(@, id)]

PopLoop(cg) ==
    [cg EXCEPT !.scopes[cg.current_scope].loops = SubSeq(@, 1, Len(@) - 1)]

\* visit_for_each_loop, lines 515-527: up to the loop block
ForEachHead(cg, iter_name, var_name) ==
    LET id == NewJmpId(cg.last_jmp_id)
        c1 == PushLoop([cg EXCEPT !.last_jmp_id = id], id)
        c2 == VisitVariable(c1, iter_name)
        c3 == Emit(c2, "call.native", StrArg("_iter_create$"))
        c4 == EmitLabel(c3, "FOR_COND", id)
        c5 == Emit(c4, "dup", None)
        c6 == Emit(c5, "call.native", StrArg("_iter_hasnext$"))
        c7 == Emit(c6, OP_LDCONST, StrArg("true"))
        c8 == Emit(c7, "jmpne", LblArg("FOR_END", id))
        c9 == Emit(c8, "dup", None)
        c10 == Emit(c9, "call.native", StrArg("_iter_next$"))
        var_idx == PutScopeVarIdx(c10, var_name)
        c11 == PutScopeVar(c10, var_name)
    IN Emit(c11, OP_STORE, StrOfIdx(var_idx))

\* visit_for_each_loop, lines 529-534: after the loop block
ForEachTail(cg) ==
    LET loops == GetScope(cg).loops
        id == loops[Len(loops)]
        c1 == Emit(cg, "jmp", LblArg("FOR_COND", id))
        c2 == EmitLabel(c1, "FOR_END", id)
        c3 == Emit(c2, "unload", None)
    IN PopLoop(c3)

RECURSIVE PutScopeVars(_, _)
PutScopeVars(cg, names) ==
    IF names = <<>> THEN cg
    ELSE PutScopeVars(PutScopeVar(cg, Head(names)), Tail(names))

\* visit_func_def, lines 553-563: up to the function block
FuncDefHead(cg, name, param_list, scope_name) ==
    LET c0 == [cg EXCEPT !.defined_funcs = @ \cup {name}]
        parent_scope == GetScopeByName(c0, scope_name)
        c1 == AddScope(c0, name, parent_scope)
        c2 == PutScopeVars(c1, param_list)
    IN [c2 EXCEPT !.generated =
            Append(@, [op |-> "func:",
                       arg |-> FuncLabel("", name, Len(param_list))])]

\* visit_func_def after the function block, without the closing ret
FuncDefTailNoRet(cg) == [cg EXCEPT !.current_scope = 1]

\* visit_func_def, lines 566-569: after the function block
FuncDefTail(cg) ==
    LET c1 == IF LastOp(cg) # "ret" THEN Emit(cg, "ret", None) ELSE cg
    IN [c1 EXCEPT !.current_scope = 1]

\* visit_bind_extern_var, lines 656-667
VisitBindExternVar(cg, variables) ==
    IF IsGlobal(GetScope(cg))
    THEN [PutScopeVars(cg, variables) EXCEPT !.shared_vars = @ \o variables]
    ELSE [cg EXCEPT !.scopes[cg.current_scope].outer_var_refs =
                        @ \cup Range(variables)]

\* ------------------------------------------------------------------------
\* Code generator: resolution of the deferred ops (code_gen.py:224-246)
\* ------------------------------------------------------------------------
\* the while loop of lines 231-237 from scope s at unwind_level: the scope
\* found and the level, or found = FALSE when the parent chain ended
RECURSIVE FindVarScope(_, _, _, _)
FindVarScope(scs, s, var_name, unwind_level) ==
    IF s = NoParent THEN [found |-> FALSE]
    ELSE IF var_name \in Range(scs[s].variables)
         THEN [found |-> TRUE, scope |-> s, unwind_level |-> unwind_level]
         ELSE FindVarScope(scs, scs[s].parent, var_name, unwind_level + 1)

\* lines 239-246: the op that replaces the deferred op
ResolvedOp(scs, op, var_name, hit) ==
    LET scope == scs[hit.scope]
        var_idx == IndexOf(scope.variables, var_name)
        is_load == op = "!load.!"
    IN IF IsGlobal(scope)
       THEN Op(IF is_load THEN OP_LDGLOBAL ELSE OP_STGLOBAL, IntArg(var_idx))
       ELSE Op(IF is_load THEN "load.outer" ELSE "store.outer",
               OuterArg(hit.unwind_level, var_idx))

\* every deferred reference is found on the parent chain of its scope
AllRefsFound(cg) ==
    \A k \in 1..Len(cg.outer_var_gen_idxs) :
        LET ref == cg.outer_var_gen_idxs[k]
        IN FindVarScope(cg.scopes, ref.scope,
                        cg.generated[ref.op_idx].arg.name, 0).found

\* resolve_outer_scope_vars, when it raises nothing
ResolveOuterScopeVars(cg) ==
    [cg EXCEPT !.generated =
        [p \in 1..Len(cg.generated) |->
            IF \E k \in 1..Len(cg.outer_var_gen_idxs) :
                    cg.outer_var_gen_idxs[k].op_idx = p
            THEN LET ref == CHOOSE r \in Range(cg.outer_var_gen_idxs) : r.op_idx = p
                     var_name == cg.generated[p].arg.name
                 IN ResolvedOp(cg.scopes, cg.generated[p].op, var_name,
                               FindVarScope(cg.scopes, ref.scope, var_name, 0))
            ELSE cg.generated[p]]]

\* ------------------------------------------------------------------------
\* Code generator: write_out (code_gen.py:795-844), the function records
\* ------------------------------------------------------------------------
\* lines 830-842: the ops up to the .entry marker, cut at the function labels
RECURSIVE FunctionRecords(_, _)
FunctionRecords(gen, acc) ==
    IF gen = <<>> \/ Head(gen).op = ".entry" THEN acc
    ELSE IF Head(gen).op = "func:"
         THEN FunctionRecords(Tail(gen),
                  Append(acc, [label |-> Head(gen).arg, code |-> <<>>]))
    ELSE IF Head(gen).op = ".defs" THEN FunctionRecords(Tail(gen), acc)
    ELSE FunctionRecords(Tail(gen),
             [acc EXCEPT ![Len(acc)].code = Append(@, Head(gen))])

\* ------------------------------------------------------------------------
\* CodeGen.generate (code_gen.py:259-293) walking a root block as the parser
\* builds it: directives, then function definitions, then statements
\* ------------------------------------------------------------------------
InFunction == cg_pc \in {"func_head", "func_body"}

\* CodeGen.__init__ and generate() up to add_scope('global')
InitGen ==
    /\ cg_pc = "directives"
    /\ scopes = <<Scope("global", NoParent)>>
    /\ current_scope = 1
    /\ generated = <<>>
    /\ outer_var_gen_idxs = <<>>
    /\ \E r \in 1..MaxSeed : last_jmp_id = SeedJmpId(r)
    /\ shared_vars = <<>>
    /\ defined_funcs = {}
    /\ functions_refs = {}
    /\ const_data = <<>>
    /\ raised = None
    /\ visited = [stmts |-> 0, funcs |-> 0, lambdas |-> 0, named |-> 0,
                  uses |-> 0, encl |-> <<NoParent>>, ifs |-> <<>>,
                  calls |-> <<>>, arrays |-> <<>>, assigns |-> <<>>,
                  ctls |-> <<>>, whiles |-> {}]
    /\ IdleLink
    /\ IdleSave
    /\ IdleParse
    /\ IdleTok
    /\ IdleLex
    /\ IdleRun

\* visit(), lines 711-713: the first executable statement of the root block
\* is the entry node
AtStatement ==
    IF cg_pc \in {"directives", "defs"} THEN Emit(CG, ".entry", None) ELSE CG

\* a statement of the current block is visited
StatementVisited ==
    /\ cg_pc \in {"directives", "defs", "main", "func_head", "func_body"}
    /\ visited.stmts < MaxStmts
    /\ cg_pc' = IF InFunction THEN "func_body" ELSE "main"
    /\ visited' = [visited EXCEPT !.stmts = @ + 1]
    /\ UNCHANGED raised
    /\ UNCHANGED notGen

\* visit_bind_extern_var: use at the top of the root block or of a function
DirectiveUse ==
    /\ cg_pc \in {"directives", "func_head"}
    /\ visited.uses < MaxUses
    /\ \E name \in VarNames : SetCG(VisitBindExternVar(CG, <<name>>))
    /\ visited' = [visited EXCEPT !.uses = @ + 1]
    /\ UNCHANGED <<cg_pc, raised>>
    /\ UNCHANGED notGen

\* visit_func_def up to the function block: a named function of the root
\* block, or a lambda the parser lifted out of the scope at position lp
EnterFuncDef ==
    /\ cg_pc \in {"directives", "defs"}
    /\ visited.funcs < MaxFuncs
    /\ LET c0 == IF cg_pc = "directives" THEN Emit(CG, ".defs", None) ELSE CG
       IN \E param_list \in ParamLists :
            \/ \E name \in FuncNames :
                  /\ SetCG(FuncDefHead(c0, name, param_list, "None"))
                  /\ visited' = [visited EXCEPT
                                    !.funcs = @ + 1,
                                    !.uses = 0,
                                    !.named = Len(scopes) + 1,
                                    !.encl = Append(@, 1)]
            \/ \E lp \in {1} \cup (IF visited.named = 0 THEN {}
                                   ELSE visited.named..Len(scopes)) :
                  /\ SetCG(FuncDefHead(c0, LambdaName(visited.lambdas + 1),
                              param_list,
                              IF lp = 1 THEN "None" ELSE scopes[lp].name))
                  /\ visited' = [visited EXCEPT
                                    !.funcs = @ + 1,
                                    !.uses = 0,
                                    !.lambdas = @ + 1,
                                    !.encl = Append(@, lp)]
    /\ cg_pc' = "func_head"
    /\ UNCHANGED raised
    /\ UNCHANGED notGen

\* visit_func_def after the function block
LeaveFuncDef ==
    /\ InFunction
    /\ GetScope(CG).loops = <<>>
    /\ SetCG(FuncDefTail(CG))
    /\ cg_pc' = "defs"
    /\ UNCHANGED <<visited, raised>>
    /\ UNCHANGED notGen

\* visit_assign
StmtAssign ==
    /\ StatementVisited
    /\ \E name \in VarNames : SetCG(VisitAssign(AtStatement, name, "1.0"))

\* visit_emit
StmtEmit ==
    /\ StatementVisited
    /\ \E name \in VarNames : SetCG(VisitEmit(AtStatement, name))

\* visit_for_each_loop up to the loop block
EnterForEachLoop ==
    /\ StatementVisited
    /\ \E iter_name \in VarNames, var_name \in VarNames :
          SetCG(ForEachHead(AtStatement, iter_name, var_name))

\* visit_for_each_loop after the loop block
LeaveForEachLoop ==
    /\ cg_pc \in {"main", "func_body"}
    /\ GetScope(CG).loops # <<>>
    /\ GetScope(CG).loops[Len(GetScope(CG).loops)] \notin visited.whiles
    /\ SetCG(ForEachTail(CG))
    /\ UNCHANGED <<cg_pc, visited, raised>>
    /\ UNCHANGED notGen

\* check_function_refs that takes every reference for defined
UndefinedFuncsNone(cg) == {}

\* check_function_refs, lines 248-257: the referenced names without '::'
\* that no function definition of the module has
UndefinedFuncs(cg) ==
    {r \in cg.functions_refs : ~r.qualified} \ 
        {[qualified |-> FALSE, mod |-> "", name |-> f] : f \in cg.defined_funcs}

\* CodeGenError, lines 38-46: the message and the source information of
\* the node it is raised with
CodeGenError(node, message) ==
    [type |-> "CodeGenError", message |-> message,
     src_info |-> IF node # None THEN [text |-> "Line", line |-> node.line]
                  ELSE [text |-> "No source mapping info!"]]

\* generate(), lines 285-293, after the walk: resolve the deferred ops
\* (CodeGenError when a name is found in no scope), check the function
\* references (Exception listing the undefined names), write the module out
FinishGenerate ==
    /\ cg_pc \in {"defs", "main"}
    /\ GetScope(CG).loops = <<>>
    /\ IF ~AllRefsFound(CG)
       THEN /\ cg_pc' = "error"
            /\ raised' = CodeGenError(None, "Referenced variable not found!")
            /\ UNCHANGED <<scopes, current_scope, generated,
                           outer_var_gen_idxs, last_jmp_id, shared_vars,
                           defined_funcs, functions_refs, const_data>>
       ELSE /\ SetCG(ResolveOuterScopeVars(CG))
            /\ IF UndefinedFuncs(CG) # {}
               THEN /\ cg_pc' = "error"
                    /\ raised' = [type |-> "Exception",
                                  undefined |-> UndefinedFuncs(CG)]
               ELSE /\ cg_pc' = "done"
                    /\ UNCHANGED raised
    /\ UNCHANGED visited
    /\ UNCHANGED notGen

NextGen ==
    \/ DirectiveUse
    \/ EnterFuncDef
    \/ LeaveFuncDef
    \/ StmtAssign
    \/ StmtEmit
    \/ EnterForEachLoop
    \/ LeaveForEachLoop
    \/ FinishGenerate

SpecGen == InitGen /\ [][NextGen]_vars

\* ------------------------------------------------------------------------
\* C7, C8: local indices and deferred references of a generated module
\* ------------------------------------------------------------------------
\* store n and load #n (a load of a number literal is neither)
IsLocalRef(item) ==
    item.op = OP_STORE \/ (item.op = OP_LOAD /\ item.arg.t # "num")

\* C7: in every module generate() produces, each store n and each load #n
\* inside a function record has an integer n below the number of local
\* variables of that function's scope (the j-th function record belongs to
\* the scope the j-th visit_func_def added)
C7_LocalIndexInRange ==
    cg_pc = "done" =>
        LET functions == FunctionRecords(generated, <<>>)
        IN \A j \in 1..Len(functions) :
             \A k \in 1..Len(functions[j].code) :
                LET item == functions[j].code[k]
                IN IsLocalRef(item) =>
                      /\ item.arg.t \in {"int", "var"}
                      /\ item.arg.v < Len(scopes[j + 1].variables)

\* the scope reached from s by u parent links
RECURSIVE Ancestor(_, _, _)
Ancestor(scs, s, u) ==
    IF u = 0 \/ s = NoParent THEN s ELSE Ancestor(scs, scs[s].parent, u - 1)

HasVar(scs, s, var_name) ==
    s # NoParent /\ var_name \in Range(scs[s].variables)

\* the op a deferred reference becomes when the first scope holding the
\* name is u parent links away
RewrittenOp(ref, u) ==
    LET found == Ancestor(scopes, ref.scope, u)
        i == IndexOf(scopes[found].variables, ref.var_name)
    IN IF found = 1
       THEN Op(IF ref.op = OP_LOAD THEN OP_LDGLOBAL ELSE OP_STGLOBAL, IntArg(i))
       ELSE Op(IF ref.op = OP_LOAD THEN "load.outer" ELSE "store.outer",
               OuterArg(u, i))

\* a read, in a function that declares use x, of a local x of the function
\* that directly encloses it in the source
ReadsEnclosingLocal(ref) ==
    /\ ref.op = OP_LOAD
    /\ ref.var_name \in scopes[ref.scope].outer_var_refs
    /\ visited.encl[ref.scope] > 1
    /\ HasVar(scopes, visited.encl[ref.scope], ref.var_name)

\* C8: after the walk each deferred op is rewritten from the first scope,
\* starting at the emit-time scope and following parent links, whose
\* variables hold the name: load.global i / store.global i if that scope is
\* the global scope, else load.outer u:i / store.outer u:i with u the links
\* followed and i the index there; and a nested function that declares
\* use x and reads its directly enclosing function's local x gets
\* load.outer 1:i (when generation fails, it is not for this reference)
C8_DeferredResolved ==
    \A k \in 1..Len(outer_var_gen_idxs) :
        LET ref == outer_var_gen_idxs[k]
        IN /\ cg_pc = "done" =>
                \E u \in 0..Len(scopes) :
                    /\ HasVar(scopes, Ancestor(scopes, ref.scope, u), ref.var_name)
                    /\ \A w \in 0..(u - 1) :
                          ~HasVar(scopes, Ancestor(scopes, ref.scope, w), ref.var_name)
                    /\ generated[ref.op_idx] = RewrittenOp(ref, u)
           /\ ReadsEnclosingLocal(ref) =>
                /\ cg_pc = "error" =>
                      \E u \in 0..Len(scopes) :
                         HasVar(scopes, Ancestor(scopes, ref.scope, u), ref.var_name)
                /\ cg_pc = "done" =>
                      generated[ref.op_idx] =
                          Op("load.outer",
                             OuterArg(1, IndexOf(scopes[visited.encl[ref.scope]].variables,
                                                 ref.var_name)))

\* ------------------------------------------------------------------------
\* Code generator: if statements (code_gen.py:71-81, 431-445, 461-493)
\* ------------------------------------------------------------------------
MaxBranches == 3    \* condition branches of one if statement
MaxIfs == 1         \* if statements of one module

CmpOps == {"<", "<=", ">", ">=", "==", "!="}

JMP_OPCODES(op) ==
    CASE op = "<" -> "jmplt" [] op = "<=" -> "jmple"
      [] op = ">" -> "jmpgt" [] op = ">=" -> "jmpge"
      [] op = "==" -> "jmpeq" [] op = "!=" -> "jmpne"

\* the comparison with its operands exchanged instead of its negation
CmpMirrored(op) ==
    CASE op = "<" -> ">" [] op = ">" -> "<"
      [] op = "<=" -> ">=" [] op = ">=" -> "<="
      [] op = "==" -> "==" [] op = "!=" -> "!="

CMP_INVERSE(op) ==
    CASE op = "<" -> ">=" [] op = ">" -> "<="
      [] op = "<=" -> ">" [] op = ">=" -> "<"
      [] op = "==" -> "!=" [] op = "!=" -> "=="

\* the label IF_C_<id>_<n>
IfcArg(id, n) == [t |-> "lbl", kind |-> "IF_C", id |-> id, n |-> n]

\* the number the k-th condition compares x with
CondValue(k) == CASE k = 1 -> "0" [] k = 2 -> "10" [] OTHER -> "100"

\* An if statement: cond_branches[k] is the comparison operator of the k-th
\* condition  x <op> CondValue(k), or "id" for the condition  x  that is no
\* comparison; the k-th body is  emit k, the else body  emit 0
IfNodes ==
    {[cond_branches |-> conds, else_branch |-> has_else] :
        conds \in UNION {[1..n -> CmpOps \cup {"id"}] : n \in 1..MaxBranches},
        has_else \in BOOLEAN}

\* emit_if_cond with the inverse comparison whether or not there is an else
EmitIfCondAlwaysInverse(cg, cond, k, has_else, branch_label) ==
    IF cond \in CmpOps
    THEN Emit(VisitSimpleLiteral(VisitVariable(cg, "x"), CondValue(k)),
              JMP_OPCODES(CMP_INVERSE(cond)), branch_label)
    ELSE Emit(Emit(VisitVariable(cg, "x"), OP_LDCONST,
                   StrArg(IF has_else THEN "true" ELSE "false")),
              "jmpeq", branch_label)

\* emit_if_cond, lines 431-445, for the k-th condition
EmitIfCond(cg, cond, k, has_else, branch_label) ==
    IF cond \in CmpOps
    THEN LET c1 == VisitVariable(cg, "x")
             c2 == VisitSimpleLiteral(c1, CondValue(k))
             cmp_op == IF has_else THEN cond ELSE CMP_INVERSE(cond)
         IN Emit(c2, JMP_OPCODES(cmp_op), branch_label)
    ELSE LET c1 == VisitVariable(cg, "x")
             c2 == Emit(c1, OP_LDCONST,
                        StrArg(IF has_else THEN "true" ELSE "false"))
         IN Emit(c2, "jmpeq", branch_label)

\* the body of a branch: the statement  emit <value>
VisitBody(cg, value) == Emit(VisitSimpleLiteral(cg, value), "emit", None)

BodyValue(k) == CASE k = 0 -> "0" [] k = 1 -> "1" [] k = 2 -> "2" [] OTHER -> "3"

\* lines 469-471: the conditions of a statement with an else branch
RECURSIVE IfConditions(_, _, _, _)
IfConditions(cg, node, id, idx) ==
    IF idx > Len(node.cond_branches) THEN cg
    ELSE IfConditions(EmitIfCond(cg, node.cond_branches[idx], idx, TRUE,
                                 IfcArg(id, idx)),
                      node, id, idx + 1)

\* lines 476-480: the branches of a statement with an else branch
RECURSIVE IfBranches(_, _, _, _)
IfBranches(cg, node, id, idx) ==
    IF idx > Len(node.cond_branches) THEN cg
    ELSE LET c1 == [cg EXCEPT !.generated =
                        Append(@, [op |-> "label:", arg |-> IfcArg(id, idx)])]
             c2 == VisitBody(c1, BodyValue(idx))
             c3 == IF idx < Len(node.cond_branches)
                   THEN Emit(c2, "jmp", LblArg("IF_END", id)) ELSE c2
         IN IfBranches(c3, node, id, idx + 1)

\* lines 483-491: conditions and branches of a statement without else
RECURSIVE IfCondBranches(_, _, _, _)
IfCondBranches(cg, node, id, idx) ==
    IF idx > Len(node.cond_branches) THEN cg
    ELSE LET last == idx = Len(node.cond_branches)
             jmp_label == IF last THEN LblArg("IF_END", id)
                          ELSE IfcArg(id, idx + 1)
             c1 == EmitIfCond(cg, node.cond_branches[idx], idx, FALSE, jmp_label)
             c2 == VisitBody(c1, BodyValue(idx))
             c3 == IF last THEN c2
                   ELSE [Emit(c2, "jmp", LblArg("IF_END", id)) EXCEPT
                            !.generated = Append(@, [op |-> "label:",
                                                     arg |-> jmp_label])]
         IN IfCondBranches(c3, node, id, idx + 1)

\* visit_if_statement, lines 461-493
VisitIfStatement(cg, node) ==
    LET id == NewJmpId(cg.last_jmp_id)
        c0 == [cg EXCEPT !.last_jmp_id = id]
        c1 == IF node.else_branch
              THEN LET d1 == IfConditions(c0, node, id, 1)
                       d2 == VisitBody(d1, BodyValue(0))
                       d3 == Emit(d2, "jmp", LblArg("IF_END", id))
                   IN IfBranches(d3, node, id, 1)
              ELSE IfCondBranches(c0, node, id, 1)
    IN EmitLabel(c1, "IF_END", id)

\* visit_if_statement as a statement of the root block or of a function
StmtIf ==
    /\ cg_pc \in {"directives", "defs", "main", "func_head", "func_body"}
    /\ Len(visited.ifs) < MaxIfs
    /\ \E node \in IfNodes :
          /\ SetCG(VisitIfStatement(AtStatement, node))
          /\ visited' = [visited EXCEPT !.ifs = Append(@, node)]
    /\ cg_pc' = IF InFunction THEN "func_body" ELSE "main"
    /\ UNCHANGED raised
    /\ UNCHANGED notGen

\* generate() on a module of assignments and if statements
NextIf ==
    \/ StmtAssign
    \/ StmtIf
    \/ FinishGenerate

SpecIf == InitGen /\ [][NextIf]_vars

\* ------------------------------------------------------------------------
\* C10: the comparison jumps of an if / elsif / elsif / else chain
\* ------------------------------------------------------------------------
IsCmpJump(item) ==
    item.op \in {"jmpeq", "jmpne", "jmplt", "jmple", "jmpgt", "jmpge"}

\* the opcodes of the comparison jumps of the output, in order
CmpJumps == [i \in 1..Len(SelectSeq(generated, IsCmpJump)) |->
                SelectSeq(generated, IsCmpJump)[i].op]

RECURSIVE IsSubSeq(_, _)
IsSubSeq(s, t) ==
    IF s = <<>> THEN TRUE
    ELSE IF t = <<>> THEN FALSE
    ELSE IF Head(s) = Head(t) THEN IsSubSeq(Tail(s), Tail(t))
    ELSE IsSubSeq(s, Tail(t))

\* the module is the if statement  x < 0 / x < 10 / x < 100  with an else
ElsifChainCompiled ==
    /\ cg_pc = "done"
    /\ visited.ifs = <<[cond_branches |-> <<"<", "<", "<">>,
                        else_branch |-> TRUE]>>

\* C10 as stated: compiling the if statement with the conditions x < 0,
\* x < 10, x < 100 and an else branch yields four comparison jumps in the
\* order jmple, jmplt, jmple, jmple
C10_Original ==
    ElsifChainCompiled =>
        IsSubSeq(<<"jmple", "jmplt", "jmple", "jmple">>, CmpJumps)

\* C10 amended: that if statement yields exactly three comparison jumps,
\* jmplt, jmplt, jmplt, one per condition in declaration order, the k-th
\* to the label IF_C_N_k (with an else branch the comparison is taken as
\* written)
C10_ElseChainJumps ==
    ElsifChainCompiled =>
        /\ CmpJumps = <<"jmplt", "jmplt", "jmplt">>
        /\ \A k \in 1..3 :
              SelectSeq(generated, IsCmpJump)[k].arg = IfcArg(last_jmp_id, k)

C10_Witness ==
    /\ ElsifChainCompiled
    /\ Len(SelectSeq(generated, IsCmpJump)) = 3

\* ------------------------------------------------------------------------
\* Parser: the order of the root block (l_parser.py:49-57, 401-445, 656-709)
\* ------------------------------------------------------------------------
MaxNodes == 5    \* nodes of the root block, those being parsed included

\* A root-block node.  start and done tell when its parsing began and was
\* completed; scope_name is FuncNode.scope_name
Node(kind, name, scope_name, start, done) ==
    [kind |-> kind, name |-> name, scope_name |-> scope_name,
     start |-> start, done |-> done]

\* Node.is_directive (ast.py): a use or an import
IsDirective(node) == node.kind \in {"use", "import"}

IsFuncNode(node) == node.kind = "func"

InsertAt(seq, pos, x) ==
    SubSeq(seq, 1, pos) \o <<x>> \o SubSeq(seq, pos + 1, Len(seq))

IsDirectiveOrFunc(node) == IsDirective(node) \/ IsFuncNode(node)

\* the number of leading directives and functions of the root block
RECURSIVE LeadingDirectivesAndFuncs(_)
LeadingDirectivesAndFuncs(statements) ==
    IF statements = <<>> \/ ~IsDirectiveOrFunc(Head(statements)) THEN 0
    ELSE 1 + LeadingDirectivesAndFuncs(Tail(statements))

\* lines 52-56: the number of leading directives of the root block
RECURSIVE LeadingDirectives(_)
LeadingDirectives(statements) ==
    IF statements = <<>> \/ ~IsDirective(Head(statements)) THEN 0
    ELSE 1 + LeadingDirectives(Tail(statements))

\* append_function placing the function behind the functions already there
AppendFunctionLast(statements, func) ==
    InsertAt(statements, LeadingDirectivesAndFuncs(statements), func)

\* append_function, lines 49-57
AppendFunction(statements, func) ==
    InsertAt(statements, LeadingDirectives(statements), func)

\* Parser.scope_names: the names of the functions being parsed
ScopeNames(stack) ==
    LET IsFn(e) == e.kind = "func"
        fns == SelectSeq(stack, IsFn)
    IN [i \in 1..Len(fns) |-> fns[i].name]

\* lines 441-443: the definition scope of a function just parsed
DefScope(scope_names) ==
    IF Len(scope_names) > 0 THEN scope_names[Len(scope_names)] ELSE "None"

InitParse ==
    /\ ps_pc = "parsing"
    /\ root_node = <<>>
    /\ ps_stack = <<>>
    /\ auto_id = 0
    /\ ps_clock = 0
    /\ IdleLink
    /\ IdleSave
    /\ IdleGen
    /\ IdleTok
    /\ IdleLex
    /\ IdleRun

CanBegin ==
    /\ ps_pc = "parsing"
    /\ Len(root_node) + Len(ps_stack) < MaxNodes

\* parse_block(B_OUTER), lines 702-706: an import directive
ParseImport ==
    /\ CanBegin
    /\ ps_stack = <<>>
    /\ root_node' = InsertAt(root_node, 0,
                        Node("import", "m", "None", ps_clock + 1, ps_clock + 2))
    /\ ps_clock' = ps_clock + 2
    /\ UNCHANGED <<ps_pc, ps_stack, auto_id>>
    /\ UNCHANGED notParse

\* parse_block(B_OUTER), lines 697-701: a use directive of the root block
ParseUse ==
    /\ CanBegin
    /\ ps_stack = <<>>
    /\ root_node' = InsertAt(root_node, 0,
                        Node("use", "x", "None", ps_clock + 1, ps_clock + 2))
    /\ ps_clock' = ps_clock + 2
    /\ UNCHANGED <<ps_pc, ps_stack, auto_id>>
    /\ UNCHANGED notParse

\* parse_block(B_OUTER), line 708: parse_stmt begins a root statement
BeginStmt ==
    /\ CanBegin
    /\ ps_stack = <<>>
    /\ ps_stack' = <<[kind |-> "stmt", name |-> "None", start |-> ps_clock + 1]>>
    /\ ps_clock' = ps_clock + 1
    /\ UNCHANGED <<ps_pc, root_node, auto_id>>
    /\ UNCHANGED notParse

\* parse_block(B_OUTER), line 709: the root statement is appended
EndStmt ==
    /\ ps_pc = "parsing"
    /\ Len(ps_stack) = 1
    /\ ps_stack[1].kind = "stmt"
    /\ root_node' = Append(root_node,
                        Node("stmt", "None", "None", ps_stack[1].start,
                             ps_clock + 1))
    /\ ps_stack' = <<>>
    /\ ps_clock' = ps_clock + 1
    /\ UNCHANGED <<ps_pc, auto_id>>
    /\ UNCHANGED notParse

\* parse_block(B_OUTER), lines 690-695, and parse_func, lines 405-414: a
\* named function begins; only the root block may define one
BeginFunc ==
    /\ CanBegin
    /\ ps_stack = <<>>
    /\ \E name \in FuncNames :
          ps_stack' = <<[kind |-> "func", name |-> name,
                         start |-> ps_clock + 1]>>
    /\ ps_clock' = ps_clock + 1
    /\ UNCHANGED <<ps_pc, root_node, auto_id>>
    /\ UNCHANGED notParse

\* parse_expr, line 234, and parse_func, lines 410-414: a lambda begins in
\* an expression of a root statement or of a function body
BeginLambda ==
    /\ CanBegin
    /\ ps_stack # <<>>
    /\ auto_id' = auto_id + 1
    /\ ps_stack' = Append(ps_stack, [kind |-> "func",
                                     name |-> LambdaName(auto_id + 1),
                                     start |-> ps_clock + 1])
    /\ ps_clock' = ps_clock + 1
    /\ UNCHANGED <<ps_pc, root_node>>
    /\ UNCHANGED notParse

\* parse_func, lines 436-445, then append_function (line 695 for a named
\* function, parse_expr line 235 for a lambda)
EndFunc ==
    /\ ps_pc = "parsing"
    /\ ps_stack # <<>>
    /\ LET top == ps_stack[Len(ps_stack)]
           rest == SubSeq(ps_stack, 1, Len(ps_stack) - 1)
       IN /\ top.kind = "func"
          /\ ps_stack' = rest
          /\ root_node' = AppendFunction(root_node,
                              Node("func", top.name, DefScope(ScopeNames(rest)),
                                   top.start, ps_clock + 1))
    /\ ps_clock' = ps_clock + 1
    /\ UNCHANGED <<ps_pc, auto_id>>
    /\ UNCHANGED notParse

\* parse_block(B_OUTER), lines 667-669: the end of the source
ParseEOF ==
    /\ ps_pc = "parsing"
    /\ ps_stack = <<>>
    /\ ps_pc' = "returned"
    /\ UNCHANGED <<root_node, ps_stack, auto_id, ps_clock>>
    /\ UNCHANGED notParse

NextParse ==
    \/ ParseImport
    \/ ParseUse
    \/ BeginStmt
    \/ EndStmt
    \/ BeginFunc
    \/ BeginLambda
    \/ EndFunc
    \/ ParseEOF

SpecParse == InitParse /\ [][NextParse]_vars

\* ------------------------------------------------------------------------
\* C9: the order of the root block after parse_to_ast()
\* ------------------------------------------------------------------------
\* directives, then function definitions, then executable statements
RootPartitioned ==
    \A i, j \in 1..Len(root_node) :
        i < j =>
            /\ IsDirective(root_node[j]) => IsDirective(root_node[i])
            /\ IsFuncNode(root_node[j]) => IsDirectiveOrFunc(root_node[i])

\* C9 as stated: after parse_to_ast() the root block is directives, then
\* function definitions, then statements, and the function definitions are
\* in the order in which they were parsed from the source
C9_Original ==
    ps_pc = "returned" =>
        /\ RootPartitioned
        /\ \A i, j \in 1..Len(root_node) :
              (i < j /\ IsFuncNode(root_node[i]) /\ IsFuncNode(root_node[j]))
                  => /\ root_node[i].start < root_node[j].start
                     /\ root_node[i].done < root_node[j].done

\* C9 amended: after parse_to_ast() the root block is directives, then
\* function definitions, then statements; the function definitions stand
\* in the reverse of the order in which their parsing was completed (each
\* is inserted in front of the earlier ones, so a function precedes the
\* lambdas lifted out of its body), the statements in source order
C9_RootOrder ==
    ps_pc = "returned" =>
        /\ RootPartitioned
        /\ \A i, j \in 1..Len(root_node) :
              /\ (i < j /\ IsFuncNode(root_node[i]) /\ IsFuncNode(root_node[j]))
                    => root_node[i].done > root_node[j].done
              /\ (i < j /\ root_node[i].kind = "stmt")
                    => root_node[i].start < root_node[j].start
              /\ (IsFuncNode(root_node[i]) /\ IsFuncNode(root_node[j])
                  /\ root_node[j].scope_name = root_node[i].name
                  /\ root_node[i].start < root_node[j].start
                  /\ root_node[j].done < root_node[i].done)
                    => i < j

C9_Witness ==
    /\ ps_pc = "returned"
    /\ \E d, f, g, l, s \in 1..Len(root_node) :
          /\ IsDirective(root_node[d])
          /\ IsFuncNode(root_node[f]) /\ root_node[f].name = "f"
          /\ IsFuncNode(root_node[g]) /\ root_node[g].name = "global"
          /\ root_node[f].start < root_node[g].start
          /\ root_node[l].name = LambdaName(1)
          /\ root_node[s].kind = "stmt"
          /\ g < f

\* ------------------------------------------------------------------------
\* Code generator: function calls (code_gen.py:126-143, 347-400, 608-635)
\* ------------------------------------------------------------------------
BUILTIN_MODULE_NAME == "$builtin"
EXT_CONST == "const"
EXT_FUNC == "func"

\* CodeGen.native_refs as load_module_defs fills it from the definition
\* files: the builtin module with the function len and the constant nil
NativeRefs == (BUILTIN_MODULE_NAME :> (("len" :> EXT_FUNC) @@ ("nil" :> EXT_CONST)))

\* CodeGen.imports after the import directives of the module:  import m
Imports == {"m"}

\* is_native_func, lines 131-138
IsNativeFunc(module_name, name) ==
    /\ module_name \in DOMAIN NativeRefs
    /\ name \in DOMAIN NativeRefs[module_name]
    /\ NativeRefs[module_name][name] = EXT_FUNC

\* find_scope_var(var_name) is None, lines 183-196
FindScopeVarIsNone(cg, var_name) ==
    /\ var_name \notin Range(GetScope(cg).variables)
    /\ var_name \notin GetScope(cg).outer_var_refs

\* a name of functions_refs: bare, or module::name
FuncRef(mod, name) == [qualified |-> mod # "", mod |-> mod, name |-> name]

\* the call targets: an identifier, or container.key with the key f
CallTargets ==
    {[kind |-> "id", name |-> n] : n \in {"x", "f", "len"}}
        \cup {[kind |-> "item", name |-> n] : n \in {"m", "x"}}

\* the argument lists of a call: number literals
CallArgs == {<<>>, <<"1.0", "2.0">>}

\* lines 375-376: the arguments
RECURSIVE VisitCallArgs(_, _)
VisitCallArgs(cg, call_args) ==
    IF call_args = <<>> THEN cg
    ELSE VisitCallArgs(VisitSimpleLiteral(cg, Head(call_args)), Tail(call_args))

\* IsStaticCall looking only at the local variables of the scope
IsStaticCallLocalsOnly(cg, target) ==
    target.name \notin Range(GetScope(cg).variables)

\* lines 379-394: whether the call is static
IsStaticCall(cg, target) == FindScopeVarIsNone(cg, target.name)

\* the module a static call names, lines 382 and 389
CallModule(target) ==
    IF target.kind = "id" THEN BUILTIN_MODULE_NAME ELSE target.name

\* the function a static call names, lines 383 and 390
CallFunc(target) == IF target.kind = "id" THEN target.name ELSE "f"

\* emit_static_function_call raises CodeGenError 'Invalid module name',
\* lines 359-361
InvalidModuleName(cg, target) ==
    /\ IsStaticCall(cg, target)
    /\ ~IsNativeFunc(CallModule(target), CallFunc(target))
    /\ target.kind # "id"
    /\ CallModule(target) \notin Imports

\* emit_static_function_call, lines 347-363
EmitStaticFunctionCall(cg, target) ==
    IF IsNativeFunc(CallModule(target), CallFunc(target))
    THEN Emit(cg, "call.native", NameArg(CallModule(target), CallFunc(target)))
    ELSE LET mod == IF target.kind = "id" THEN "" ELSE CallModule(target)
         IN Emit([cg EXCEPT !.functions_refs =
                        @ \cup {FuncRef(mod, CallFunc(target))}],
                 OP_CALL_UDF, NameArg(mod, CallFunc(target)))

\* visit_variable, lines 334-345
VisitIdentifier(cg, name) ==
    IF name \in DOMAIN NativeRefs[BUILTIN_MODULE_NAME]
    THEN Emit(cg, OP_LDCONST, StrArg(name))
    ELSE VisitVariable(cg, name)

\* emit_dynamic_call, lines 365-369, with visit_get, lines 626-632, for the
\* target container.f
EmitDynamicCall(cg, target) ==
    LET c1 == VisitIdentifier(cg, target.name)
        c2 == IF target.kind = "id" THEN c1
              ELSE Emit(c1, "get.index", StrArg("f"))
    IN Emit(c2, "invoke", None)

\* visit_function_call, lines 371-400 (up to the CodeGenError if one is
\* raised)
VisitFunctionCall(cg, target, call_args) ==
    LET c1 == VisitCallArgs(cg, call_args)
    IN IF IsStaticCall(c1, target)
       THEN IF InvalidModuleName(c1, target) THEN c1
            ELSE EmitStaticFunctionCall(c1, target)
       ELSE EmitDynamicCall(c1, target)

\* visit_function_call as a statement of the root block or of a function;
\* visited.calls keeps the call, where its code begins, and the variables
\* and outer references of the scope when it was visited
StmtCall ==
    /\ cg_pc \in {"directives", "defs", "main", "func_head", "func_body"}
    /\ visited.stmts < MaxStmts
    /\ \E target \in CallTargets, call_args \in CallArgs :
          LET c0 == AtStatement
              c1 == VisitFunctionCall(c0, target, call_args)
          IN /\ SetCG(c1)
             /\ visited' = [visited EXCEPT
                    !.stmts = @ + 1,
                    !.calls = Append(@,
                        [target |-> target, call_args |-> call_args,
                         at |-> Len(c0.generated),
                         ops |-> Len(c1.generated) - Len(c0.generated),
                         variables |-> Range(GetScope(c0).variables),
                         outer_var_refs |-> GetScope(c0).outer_var_refs])]
             /\ IF InvalidModuleName(c0, target)
                THEN /\ cg_pc' = "error"
                     /\ raised' = CodeGenError([line |-> visited.stmts + 1],
                                                "Invalid module name")
                ELSE /\ cg_pc' = IF InFunction THEN "func_body" ELSE "main"
                     /\ UNCHANGED raised
    /\ UNCHANGED notGen

\* generate() on a module of use directives, functions and call statements
NextCall ==
    \/ DirectiveUse
    \/ EnterFuncDef
    \/ LeaveFuncDef
    \/ StmtCall
    \/ FinishGenerate

SpecCall == InitGen /\ [][NextCall]_vars

\* ------------------------------------------------------------------------
\* C11: static and dynamic calls
\* ------------------------------------------------------------------------
IsIdCall(c) == c.target.kind = "id"

\* the call was visited with its name a variable or an outer reference
CalleeIsVariable(c) == c.target.name \in c.variables \cup c.outer_var_refs

\* the k-th op of the code of the call c
CallOp(c, k) == generated[c.at + k]

ArgsPushed(c) ==
    \A k \in 1..Len(c.call_args) :
        CallOp(c, k) = Op(OP_LOAD, NumArg(c.call_args[k]))

CompiledStatic(c) ==
    /\ c.ops = Len(c.call_args) + 1
    /\ CallOp(c, c.ops).op \in {"call.native", OP_CALL_UDF}
    /\ CallOp(c, c.ops).arg.fn = c.target.name
    /\ \A k \in 1..c.ops : CallOp(c, k).op # "invoke"

CompiledDynamic(c) ==
    /\ c.ops = Len(c.call_args) + 2
    /\ CallOp(c, c.ops - 1).op \in
            {OP_LOAD, OP_LDCONST, "!load.!", OP_LDGLOBAL, "load.outer"}
    /\ CallOp(c, c.ops).op = "invoke"
    /\ \A k \in 1..c.ops : CallOp(c, k).op \notin {"call.native", OP_CALL_UDF}

UnqualifiedCalls ==
    {generated[i].arg.fn : i \in {j \in 1..Len(generated) :
        generated[j].op = OP_CALL_UDF /\ generated[j].arg.mod = ""}}

\* the names f of the function labels f.k: of the output
LabelledFuncs ==
    {generated[i].arg.fn : i \in {j \in 1..Len(generated) :
        generated[j].op = "func:"}}

HasQualifiedCall ==
    \E i \in 1..Len(generated) :
        generated[i].op = OP_CALL_UDF /\ generated[i].arg.mod # ""

\* C16: generate() fails when a name passed to an unqualified call.udf is
\* not the name of a function of the module, and the failure lists all
\* such names; so a module that generate() returns has a function label
\* f.k: for every unqualified call.udf f; a qualified m::f is never
\* rejected by this check
C16_UndefinedFuncsRejected ==
    /\ cg_pc = "done" => UnqualifiedCalls \subseteq LabelledFuncs
    /\ (cg_pc = "error" /\ raised.type = "Exception") =>
          /\ raised.undefined # {}
          /\ {r.name : r \in raised.undefined} = UnqualifiedCalls \ LabelledFuncs
          /\ \A r \in raised.undefined : ~r.qualified
    /\ (cg_pc = "error" /\ raised.type = "CodeGenError") =>
          (~AllRefsFound(CG) \/ \E i \in 1..Len(visited.calls) :
                /\ visited.calls[i].target.kind = "item"
                /\ visited.calls[i].target.name \notin Imports)

C16_Witness ==
    /\ cg_pc = "error"
    /\ raised.type = "Exception"
    /\ raised.undefined # {}
    /\ HasQualifiedCall

\* ------------------------------------------------------------------------
\* Code generator: array literals (code_gen.py:207-215, 587-606, 813-821)
\* ------------------------------------------------------------------------
MaxElems == 3    \* elements of an array literal

\* NumberNode keeps float(text); str() of it is the text of the float
StrOfFloat(text) ==
    CASE text = "1" -> "1.0" [] text = "2" -> "2.0" [] text = "3" -> "3.0"
      [] OTHER -> text

NumberNode(text) == [type |-> "num", value |-> StrOfFloat(text)]

StringNode(text) == [type |-> "str", value |-> text]

IdentifierNode(name) == [type |-> "id", name |-> name]

ElemNodes == {NumberNode("1"), NumberNode("2"), NumberNode("3"),
              StringNode("\"s\""), IdentifierNode("a")}

\* ArrayNode: the elements and is_hash (the keys of a hash are k1, k2, ...)
ArrayNodes ==
    {[elements |-> els, is_hash |-> h] :
        els \in UNION {[1..n -> ElemNodes] : n \in 0..MaxElems},
        h \in BOOLEAN}

HashKey(k) == CASE k = 1 -> "\"k1\"" [] k = 2 -> "\"k2\"" [] OTHER -> "\"k3\""

\* is_const_array, lines 207-215
IsConstArray(node) ==
    /\ \A k \in 1..Len(node.elements) :
          node.elements[k].type \in {"num", "str"}
    /\ Len(node.elements) > 0

\* visit() of an element: a number, a string or an identifier
VisitElem(cg, elem) ==
    IF elem.type = "id" THEN VisitIdentifier(cg, elem.name)
    ELSE IF elem.type = "num" THEN Emit(cg, OP_LOAD, NumArg(elem.value))
    ELSE Emit(cg, OP_LOAD, StrArg(elem.value))

\* lines 592-594 and 604-605: the elements from the k-th on
RECURSIVE VisitElems(_, _, _)
VisitElems(cg, node, k) ==
    IF k > Len(node.elements) THEN cg
    ELSE LET c1 == IF node.is_hash
                   THEN Emit(cg, OP_LOAD, StrArg(HashKey(k))) ELSE cg
         IN VisitElems(VisitElem(c1, node.elements[k]), node, k + 1)

\* is_const_array that also takes the empty array for constant
IsConstArrayOrEmpty(node) ==
    \A k \in 1..Len(node.elements) :
        node.elements[k].type \in {"num", "str"}

\* visit_array_def with the constant test given
VisitArrayDefWith(cg, node, is_const) ==
    LET num_elems == Len(node.elements)
    IN IF node.is_hash
       THEN Emit(VisitElems(cg, node, 1), "mk_hash", IntArg(num_elems))
       ELSE IF is_const
            THEN Emit([cg EXCEPT !.const_data = Append(@, node)],
                      OP_LDCONST, IntArg(Len(cg.const_data)))
            ELSE Emit(VisitElems(cg, node, 1), "mk_array", IntArg(num_elems))

\* visit_array_def folding the empty array too
VisitArrayDefFoldsEmpty(cg, node) ==
    VisitArrayDefWith(cg, node, IsConstArrayOrEmpty(node))

\* visit_array_def, lines 587-606
VisitArrayDef(cg, node) == VisitArrayDefWith(cg, node, IsConstArray(node))

\* visit_assign, lines 425-429: the store after the expression
AssignStore(cg, name) ==
    LET var_idx == PutScopeVarIdx(cg, name)
        c2 == PutScopeVar(cg, name)
    IN IF var_idx # NoIdx
       THEN Emit(c2, OP_STORE, IntArg(var_idx))
       ELSE AddOuterVarRef(c2, OP_STORE, name)

\* write_out, lines 813-818: the data section, each record the str() of the
\* values of an array, which ' '.join puts on one line
DataSection(data) ==
    [i \in 1..Len(data) |->
        [k \in 1..Len(data[i].elements) |-> data[i].elements[k].value]]

\* visit_assign of  name = <array literal>; visited.arrays keeps the
\* literal, where its code begins and the size of the pool before and after
StmtAssignArray ==
    /\ cg_pc \in {"directives", "defs", "main", "func_head", "func_body"}
    /\ visited.stmts < MaxStmts
    /\ cg_pc' = IF InFunction THEN "func_body" ELSE "main"
    /\ UNCHANGED raised
    /\ UNCHANGED notGen
    /\ \E name \in {"a"}, node \in ArrayNodes :
          LET c0 == AtStatement
              c1 == VisitArrayDef(c0, node)
          IN /\ SetCG(AssignStore(c1, name))
             /\ visited' = [visited EXCEPT
                    !.stmts = @ + 1,
                    !.arrays = Append(@,
                        [node |-> node, at |-> Len(c0.generated),
                         ops |-> Len(c1.generated) - Len(c0.generated),
                         pool |-> Len(c0.const_data),
                         pool_after |-> Len(c1.const_data)])]

\* generate() on a module of assignments of array literals
NextArr ==
    \/ StmtAssignArray
    \/ FinishGenerate

SpecArr == InitGen /\ [][NextArr]_vars

\* ------------------------------------------------------------------------
\* C12: constant arrays go to the data pool
\* ------------------------------------------------------------------------
ArrayOp(a, k) == generated[a.at + k]

ArrayFolded(a) ==
    /\ a.pool_after = a.pool + 1
    /\ a.ops = 1
    /\ ArrayOp(a, 1) = Op(OP_LDCONST, IntArg(a.pool))
    /\ Len(DataSection(const_data)) > a.pool
    /\ DataSection(const_data)[a.pool + 1] =
          [k \in 1..Len(a.node.elements) |-> a.node.elements[k].value]

ArrayBuilt(a) ==
    /\ a.pool_after = a.pool
    /\ a.ops = Len(a.node.elements) + 1
    /\ ArrayOp(a, a.ops) = Op("mk_array", IntArg(Len(a.node.elements)))
    /\ \A k \in 1..Len(a.node.elements) :
          LET el == a.node.elements[k]
          IN CASE el.type = "num" -> ArrayOp(a, k) = Op(OP_LOAD, NumArg(el.value))
               [] el.type = "str" -> ArrayOp(a, k) = Op(OP_LOAD, StrArg(el.value))
               [] OTHER -> ArrayOp(a, k).op \in {OP_LOAD, OP_LDGLOBAL, "!load.!"}

\* every non-hash literal is folded if it is non-empty and all its elements
\* are number or string literals, and built with mk_array otherwise
FoldedIffConst ==
    \A i \in 1..Len(visited.arrays) :
        LET a == visited.arrays[i]
        IN ~a.node.is_hash =>
              IF IsConstArray(a.node) THEN ArrayFolded(a) ELSE ArrayBuilt(a)

\* the module is  a = [1, 2, 3]
OneTwoThreeCompiled ==
    /\ cg_pc = "done"
    /\ Len(visited.arrays) = 1
    /\ visited.arrays[1].node =
          [elements |-> <<NumberNode("1"), NumberNode("2"), NumberNode("3")>>,
           is_hash |-> FALSE]

MainHasLoadConstZero ==
    \E i \in 1..Len(generated) :
        /\ generated[i] = Op(OP_LDCONST, IntArg(0))
        /\ \E j \in 1..(i - 1) : generated[j].op = ".entry"

IterCreates ==
    {p \in 1..Len(generated) :
        generated[p] = Op("call.native", StrArg("_iter_create$"))}

\* the loop head that follows the iterator construction at p, for the
\* loop numbered id
ForEachHeadAt(p, id) ==
    /\ Len(generated) >= p + 8
    /\ generated[p + 1] = LabelDef("FOR_COND", id)
    /\ generated[p + 2] = Op("dup", None)
    /\ generated[p + 3] = Op("call.native", StrArg("_iter_hasnext$"))
    /\ generated[p + 4] = Op(OP_LDCONST, StrArg("true"))
    /\ generated[p + 5] = Op("jmpne", LblArg("FOR_END", id))
    /\ generated[p + 6] = Op("dup", None)
    /\ generated[p + 7] = Op("call.native", StrArg("_iter_next$"))
    /\ generated[p + 8].op = OP_STORE

\* the loop end behind the body: jmp FOR_COND, the FOR_END label, unload
ForEachTailAfter(p, id) ==
    \E q \in (p + 9)..(Len(generated) - 2) :
        /\ generated[q] = Op("jmp", LblArg("FOR_COND", id))
        /\ generated[q + 1] = LabelDef("FOR_END", id)
        /\ generated[q + 2] = Op("unload", None)

\* every for-each loop of a generated module has the ops of the claim in
\* the order of the claim, whatever the argument of the store
ForEachShape ==
    cg_pc = "done" =>
        \A p \in IterCreates :
            /\ Len(generated) > p
            /\ generated[p + 1].op = "label:"
            /\ ForEachHeadAt(p, generated[p + 1].arg.id)
            /\ ForEachTailAfter(p, generated[p + 1].arg.id)

\* C13: for every for-each loop the generated code has, in this order,
\* call.native _iter_create$, the FOR_COND label, dup, call.native
\* _iter_hasnext$, load.const true, jmpne FOR_END, dup, call.native
\* _iter_next$, store <index>, the body, jmp FOR_COND, the FOR_END label
\* and unload, where the store argument is the integer index of the loop
\* variable in the current scope
C13_ForEachSequence ==
    /\ ForEachShape
    /\ cg_pc = "done" =>
          \A p \in IterCreates :
              /\ generated[p + 8].arg.t = "int"
              /\ generated[p + 8].arg.v >= 0

\* ------------------------------------------------------------------------
\* Parser and code generator: assignments (l_parser.py:64-160, 539-559;
\* code_gen.py:63-69, 316-324, 421-429)
\* ------------------------------------------------------------------------
\* T_ASSIGN and T_MATHASSIGN tokens, as the characters of t_val
AssignTokens ==
    {<<"=">>, <<"+", "=">>, <<"-", "=">>, <<"*", "=">>, <<"/", "=">>,
     <<"%", "=">>}

\* the tokens of the expressions on the right of an assignment
RhsTokens ==
    {<<"1">>, <<"a">>, <<"2", "+", "3">>, <<"2", "*", "3">>, <<"a", "-", "1">>}

COMMON_OPS(op) ==
    CASE op = "+" -> "add" [] op = "-" -> "sub" [] op = "*" -> "mul"
      [] op = "/" -> "div" [] op = "%" -> "mod"

MathNode(l, r, op) == [type |-> "math", l |-> l, r |-> r, op |-> op]

RECURSIVE ParseFactor(_), ParseMoreFactors(_, _), ParseTerm(_),
          ParseMoreTerms(_, _), ParseCmp(_)

\* parse_factor, lines 64-111: a number, an identifier or ( expression );
\* the node and the tokens left
ParseFactor(toks) ==
    IF Head(toks) = "(" 
    THEN LET sub == ParseCmp(Tail(toks))
         IN [node |-> sub.node, rest |-> Tail(sub.rest)]
    ELSE IF Head(toks) \in {"1", "2", "3"}
    THEN [node |-> NumberNode(Head(toks)), rest |-> Tail(toks)]
    ELSE [node |-> IdentifierNode(Head(toks)), rest |-> Tail(toks)]

\* parse_morefactors, lines 113-124
ParseMoreFactors(f1, toks) ==
    IF toks # <<>> /\ Head(toks) \in {"*", "/", "%"}
    THEN LET f2 == ParseFactor(Tail(toks))
         IN ParseMoreFactors(MathNode(f1, f2.node, Head(toks)), f2.rest)
    ELSE [node |-> f1, rest |-> toks]

\* parse_term, lines 138-142
ParseTerm(toks) ==
    LET f == ParseFactor(toks) IN ParseMoreFactors(f.node, f.rest)

\* parse_moreterms, lines 126-136
ParseMoreTerms(t1, toks) ==
    IF toks # <<>> /\ Head(toks) \in {"+", "-"}
    THEN LET t2 == ParseTerm(Tail(toks))
         IN ParseMoreTerms(MathNode(t1, t2.node, Head(toks)), t2.rest)
    ELSE [node |-> t1, rest |-> toks]

\* parse_cmp, lines 156-160
ParseCmp(toks) ==
    LET t == ParseTerm(toks) IN ParseMoreTerms(t.node, t.rest)

\* parse_expr of an arithmetic expression
ParseExpr(toks) == ParseCmp(toks).node

AssignNode(name, expr) == [name |-> name, expr |-> expr]

\* parse_assign building the operation with the operands exchanged
ParseAssignSwapped(name, assign_tok, rhs) ==
    IF Len(assign_tok) = 2
    THEN AssignNode(name, MathNode(ParseExpr(rhs), IdentifierNode(name),
                                   assign_tok[1]))
    ELSE AssignNode(name, ParseExpr(rhs))

\* parse_assign, lines 539-555, with an identifier as the target
ParseAssign(name, assign_tok, rhs) ==
    LET op == IF Len(assign_tok) = 2 THEN assign_tok[1] ELSE "None"
        expr == ParseExpr(rhs)
    IN IF op # "None"
       THEN AssignNode(name, MathNode(IdentifierNode(name), expr, op))
       ELSE AssignNode(name, expr)

\* visit() of an arithmetic expression: visit_simple_literal,
\* visit_variable, visit_binary_expr (lines 316-324)
RECURSIVE VisitExpr(_, _)
VisitExpr(cg, node) ==
    IF node.type = "math"
    THEN Emit(VisitExpr(VisitExpr(cg, node.l), node.r), COMMON_OPS(node.op), None)
    ELSE VisitElem(cg, node)

\* visit_assign, lines 421-429
VisitAssignNode(cg, node) == AssignStore(VisitExpr(cg, node.expr), node.name)

\* an assignment statement is parsed and visited; visited.assigns keeps
\* its tokens and where its code begins
StmtAssignExpr ==
    /\ cg_pc \in {"directives", "defs", "main", "func_head", "func_body"}
    /\ visited.stmts < MaxStmts
    /\ \E name \in {"a"}, assign_tok \in AssignTokens, rhs \in RhsTokens :
          LET c0 == AtStatement
              c1 == VisitAssignNode(c0, ParseAssign(name, assign_tok, rhs))
          IN /\ SetCG(c1)
             /\ visited' = [visited EXCEPT
                    !.stmts = @ + 1,
                    !.assigns = Append(@,
                        [name |-> name, assign_tok |-> assign_tok,
                         rhs |-> rhs, at |-> Len(c0.generated)])]
    /\ cg_pc' = IF InFunction THEN "func_body" ELSE "main"
    /\ UNCHANGED raised
    /\ UNCHANGED notGen

\* generate() on a module of assignments
NextAsg ==
    \/ StmtAssignExpr
    \/ FinishGenerate

SpecAsg == InitGen /\ [][NextAsg]_vars

\* ------------------------------------------------------------------------
\* C14: compound assignment to an identifier
\* ------------------------------------------------------------------------
\* the opcodes of the output
Opcodes == [i \in 1..Len(generated) |-> generated[i].op]

\* this step visits a compound assignment
CompoundVisited ==
    /\ Len(visited'.assigns) = Len(visited.assigns) + 1
    /\ Len(visited'.assigns[Len(visited'.assigns)].assign_tok) = 2

\* what generate() would have emitted in this step for the plain
\* assignment  name = <toks>
PlainAssignCode(name, toks) ==
    VisitAssignNode(AtStatement, ParseAssign(name, <<"=">>, toks)).generated

\* the module is  a += 1  followed by  a -= 1
IncDecCompiled ==
    /\ cg_pc = "done"
    /\ Len(visited.assigns) = 2
    /\ visited.assigns[1].assign_tok = <<"+", "=">>
    /\ visited.assigns[1].rhs = <<"1">>
    /\ visited.assigns[2].assign_tok = <<"-", "=">>
    /\ visited.assigns[2].rhs = <<"1">>

\* name op= expr gives the code of the text  name = name op expr
SameAsPlainText ==
    [][CompoundVisited =>
          LET c == visited'.assigns[Len(visited'.assigns)]
          IN generated' = PlainAssignCode(c.name,
                              <<c.name, c.assign_tok[1]>> \o c.rhs)]_vars

\* name op= expr gives the code of  name = name op (expr)
SameAsPlainParenthesized ==
    [][CompoundVisited =>
          LET c == visited'.assigns[Len(visited'.assigns)]
          IN generated' = PlainAssignCode(c.name,
                              <<c.name, c.assign_tok[1], "(">> \o c.rhs
                                  \o <<")">>)]_vars

\* C14 as stated: name op= expr produces exactly the opcode sequence of
\* name = name op expr, and for a += 1 followed by a -= 1 the output has
\* the opcode subsequences load, load, add, store and load, load, sub, store
C14_Original ==
    /\ SameAsPlainText
    /\ [](IncDecCompiled =>
            /\ IsSubSeq(<<"load", "load", "add", "store">>, Opcodes)
            /\ IsSubSeq(<<"load", "load", "sub", "store">>, Opcodes))

\* C14 amended: name op= expr produces exactly the opcode sequence of
\* name = name op (expr), the expression taken as one operand; for
\* a += 1 followed by a -= 1 the opcodes are load.global, load, add, store,
\* load, load, sub, store (the first read of a comes before a is a
\* variable of the scope, so it is deferred and resolved to load.global)
C14_CompoundAssign ==
    /\ SameAsPlainParenthesized
    /\ [](IncDecCompiled =>
            Opcodes = <<".entry", "load.global", "load", "add", "store",
                        "load", "load", "sub", "store">>)

C14_Witness ==
    /\ IncDecCompiled
    /\ IsSubSeq(<<"load", "load", "sub", "store">>, Opcodes)

\* ------------------------------------------------------------------------
\* C15: the slots of the shared variables
\* ------------------------------------------------------------------------
\* C15: in every module generate() produces, the i-th name (from 0) of the
\* shared-variable list is bound to global slot i
C15_SharedSlots ==
    cg_pc = "done" =>
        \A i \in 1..Len(shared_vars) :
            /\ shared_vars[i] \in Range(scopes[1].variables)
            /\ IndexOf(scopes[1].variables, shared_vars[i]) = i - 1

\* ------------------------------------------------------------------------
\* Tokenizer cursor: next() and hold() (tokenizer.py:86-112)
\* ------------------------------------------------------------------------
MaxTokens == 3    \* tokens of the source in front of T_EOF
MaxCalls == 6     \* calls of next() and hold()

Token(type, val) == [type |-> type, val |-> val]

T_EOF == Token("T_EOF", "None")

\* tokenize(), lines 103-112: the tokens of the lines, then T_EOF
TokenStreams ==
    {toks \o <<T_EOF>> :
        toks \in UNION {[1..n -> {Token("T_IDENT", "a"), Token("T_NUMBER", "1"),
                                  Token("T_EOL", "None")}] : n \in 0..MaxTokens}}

\* Tokenizer.__init__, lines 74-84
InitTok ==
    /\ tk_pc = "ready"
    /\ tk_gen \in TokenStreams
    /\ t_type = "None"
    /\ t_val = "None"
    /\ retry = FALSE
    /\ tk_log = <<>>
    /\ IdleLink
    /\ IdleSave
    /\ IdleGen
    /\ IdleParse
    /\ IdleLex
    /\ IdleRun

\* next() that never looks at retry
NextTokenIgnoringRetry(gen, cur, held) ==
    IF gen # <<>>
    THEN [gen |-> Tail(gen), cur |-> Head(gen), retry |-> FALSE]
    ELSE [gen |-> gen, cur |-> cur, retry |-> FALSE]

\* next(), lines 90-101: the generator, the current token and retry after
\* the call (StopIteration leaves the token as it is)
NextToken(gen, cur, held) ==
    IF ~held
    THEN IF gen # <<>>
         THEN [gen |-> Tail(gen), cur |-> Head(gen), retry |-> held]
         ELSE [gen |-> gen, cur |-> cur, retry |-> held]
    ELSE [gen |-> gen, cur |-> cur, retry |-> FALSE]

\* next(), lines 90-101
TokNext ==
    /\ tk_pc = "ready"
    /\ Len(tk_log) < MaxCalls
    /\ LET r == NextToken(tk_gen, Token(t_type, t_val), retry)
       IN /\ tk_gen' = r.gen
          /\ t_type' = r.cur.type
          /\ t_val' = r.cur.val
          /\ retry' = r.retry
          /\ tk_log' = Append(tk_log, [call |-> "next", held |-> retry,
                                       left |-> Len(tk_gen),
                                       token |-> r.cur])
    /\ UNCHANGED tk_pc
    /\ UNCHANGED notTok

\* hold(), lines 86-88
TokHold ==
    /\ tk_pc = "ready"
    /\ Len(tk_log) < MaxCalls
    /\ retry' = TRUE
    /\ tk_log' = Append(tk_log, [call |-> "hold", held |-> retry,
                                 left |-> Len(tk_gen),
                                 token |-> Token(t_type, t_val)])
    /\ UNCHANGED <<tk_pc, tk_gen, t_type, t_val>>
    /\ UNCHANGED notTok

NextTok ==
    \/ TokNext
    \/ TokHold

SpecTok == InitTok /\ [][NextTok]_vars

\* ------------------------------------------------------------------------
\* C17: hold() is a single-token lookback
\* ------------------------------------------------------------------------
IsNextCall(c) == c.call = "next"

\* the tokens that the calls of next() without a hold have left current
Delivered ==
    LET Fresh(c) == c.call = "next" /\ ~c.held
        fresh == SelectSeq(tk_log, Fresh)
    IN [i \in 1..Len(fresh) |-> fresh[i].token]

\* the whole stream: what was delivered, then what is still to come
WholeStream(delivered) == delivered \o tk_gen

\* a next() after hold() leaves the token and clears the hold; hold()
\* changes nothing but retry, so several holds are one hold
HoldIsLookback ==
    /\ \A i \in 1..Len(tk_log) :
          LET c == tk_log[i]
          IN /\ (c.call = "next" /\ c.held /\ i > 1) =>
                    c.token = tk_log[i - 1].token
             /\ (c.call = "hold" /\ i > 1) => c.token = tk_log[i - 1].token
             /\ (c.call = "next" /\ i < Len(tk_log)) => ~tk_log[i + 1].held
             /\ (c.call = "hold" /\ i < Len(tk_log)) => tk_log[i + 1].held
    /\ (tk_log # <<>> /\ tk_log[Len(tk_log)].call = "next") => ~retry
    /\ (tk_log # <<>> /\ tk_log[Len(tk_log)].call = "hold") => retry

\* C17 as stated: a next() after hold() leaves the current token and clears
\* the hold, the call after that advances by exactly one token, several
\* holds are one hold, and no token is skipped or delivered twice without
\* a hold in any sequence of next() / hold() calls
C17_Original ==
    /\ HoldIsLookback
    /\ \A i \in 1..Len(tk_log) :
          (tk_log[i].call = "next" /\ ~tk_log[i].held) =>
              Len(tk_gen) < tk_log[i].left
    /\ WholeStream(Delivered) \in TokenStreams

\* the tokens delivered once the generator is exhausted: T_EOF again
AfterEnd(delivered) ==
    \A i \in 1..Len(delivered) :
        (i > 1 /\ delivered[i - 1] = T_EOF) => delivered[i] = T_EOF

\* the delivered tokens up to the first T_EOF
RECURSIVE UpToEOF(_)
UpToEOF(delivered) ==
    IF delivered = <<>> THEN <<>>
    ELSE IF Head(delivered) = T_EOF THEN <<T_EOF>>
    ELSE <<Head(delivered)>> \o UpToEOF(Tail(delivered))

\* C17 amended: as stated while the generator has tokens left; once T_EOF
\* was delivered, next() without a hold leaves T_EOF current again
C17_HoldNext ==
    /\ HoldIsLookback
    /\ \A i \in 1..Len(tk_log) :
          (tk_log[i].call = "next" /\ ~tk_log[i].held) =>
              IF tk_log[i].left > 0
              THEN /\ i = Len(tk_log) => Len(tk_gen) = tk_log[i].left - 1
                   /\ i < Len(tk_log) => tk_log[i + 1].left = tk_log[i].left - 1
              ELSE tk_log[i].token = T_EOF
    /\ AfterEnd(Delivered)
    /\ WholeStream(UpToEOF(Delivered)) \in TokenStreams

C17_Witness ==
    /\ Len(tk_log) >= 5
    /\ tk_log[1].call = "next"
    /\ tk_log[2].call = "hold"
    /\ tk_log[3].call = "hold"
    /\ tk_log[4].call = "next"
    /\ tk_log[5].call = "next"
    /\ tk_log[5].token # tk_log[4].token

\* ------------------------------------------------------------------------
\* Tokenizer.tokenize_line (tokenizer.py:51-60, 134-184)
\* ------------------------------------------------------------------------
MaxLineLen == 4    \* characters of a source line

\* the characters of the lines: a letter, a digit, a space, the end of
\* line, and a character that no pattern of TMPL_MAIN matches
LineChars == {"a", "1", " ", "\n", "?"}

IsSpaceChar(c) == c \in {" ", "\n"}

IsIdentStart(c) == c \in {"a", "$"}

IsIdentChar(c) == c \in {"a", "1"}

IsDigitChar(c) == c = "1"

\* the lines of a source: the end of line, if there is one, comes last
Lines ==
    {l \in UNION {[1..n -> LineChars] : n \in 0..MaxLineLen} :
        \A i \in 1..Len(l) : l[i] = "\n" => i = Len(l)}

\* the end (exclusive, from 0) of the longest run of characters that
\* satisfy the class of the character at position i (from 1)
RECURSIVE RunEnd(_, _, _)
RunEnd(line, i, class) ==
    LET In(c) == CASE class = "space" -> IsSpaceChar(c)
                   [] class = "digit" -> IsDigitChar(c)
                   [] OTHER -> IsIdentChar(c)
    IN IF i <= Len(line) /\ In(line[i]) THEN RunEnd(line, i + 1, class)
       ELSE i - 1

\* "[^"]*" at position i: a quote with a closing quote behind it
IsStringStart(line, i) ==
    /\ line[i] = "\""
    /\ \E j \in (i + 1)..Len(line) : line[j] = "\""

\* the position of the first quote at or behind position j
RECURSIVE StringEnd(_, _)
StringEnd(line, j) == IF line[j] = "\"" THEN j ELSE StringEnd(line, j + 1)

\* the one-character tokens
IsPunctChar(c) == c \in {"&", "(", ")", "{", "}"}

PunctType(c) ==
    CASE c = "&" -> "T_CONCAT"
      [] c = "(" -> "T_LBR" [] c = ")" -> "T_RBR"
      [] c = "{" -> "T_LCBR" [] c = "}" -> "T_RCBR"

\* re_main matched at position i (from 1): the token type and the end of
\* the match, by the order of the alternatives of TMPL_MAIN; a number is
\* tried before an identifier, and T_SPACE is skipped by the caller
MatchAt(line, i) ==
    IF IsStringStart(line, i)
    THEN [type |-> "T_STRING", end |-> StringEnd(line, i + 1)]
    ELSE IF IsDigitChar(line[i])
    THEN [type |-> "T_NUMBER", end |-> RunEnd(line, i, "digit")]
    ELSE IF IsPunctChar(line[i])
    THEN [type |-> PunctType(line[i]), end |-> i]
    ELSE IF IsSpaceChar(line[i])
    THEN [type |-> "T_SPACE", end |-> RunEnd(line, i, "space")]
    ELSE [type |-> "T_IDENT", end |-> RunEnd(line, i + 1, "ident")]

Matches(line, i) ==
    \/ IsStringStart(line, i)
    \/ IsDigitChar(line[i])
    \/ IsPunctChar(line[i])
    \/ IsSpaceChar(line[i])
    \/ IsIdentStart(line[i])

\* finditer: the start (from 0) of the next match at or behind position
\* pos, or -1 when the line has no further match
NextMatchStart(line, pos) ==
    LET starts == {i \in (pos + 1)..Len(line) : Matches(line, i)}
    IN IF starts = {} THEN -1
       ELSE (CHOOSE i \in starts : \A j \in starts : i <= j) - 1

Text(line, from, to) == SubSeq(line, from + 1, to)

InitLex ==
    /\ lx_pc = "scan"
    /\ lx_line \in Lines
    /\ prev_end = 0
    /\ lx_tokens = <<>>
    /\ lx_seq = <<>>
    /\ tok_val = <<>>
    /\ IdleLink
    /\ IdleSave
    /\ IdleGen
    /\ IdleParse
    /\ IdleTok
    /\ IdleRun

\* the body of the loop of lines 140-179 for the next match
LexMatch ==
    /\ lx_pc = "scan"
    /\ NextMatchStart(lx_line, prev_end) # -1
    /\ LET start == NextMatchStart(lx_line, prev_end)
           t == MatchAt(lx_line, start + 1)
       IN IF start - prev_end > 0
          THEN /\ lx_pc' = "InvalidSequence"
               /\ lx_seq' = Text(lx_line, prev_end, start)
               /\ UNCHANGED <<prev_end, lx_tokens>>
          ELSE /\ lx_tokens' =
                     IF t.type = "T_SPACE" THEN lx_tokens
                     ELSE Append(lx_tokens,
                                 Token(t.type, Text(lx_line, start, t.end)))
               /\ prev_end' = t.end
               /\ UNCHANGED <<lx_pc, lx_seq>>
    /\ UNCHANGED <<lx_line, tok_val>>
    /\ UNCHANGED notLex

\* lines 181-184: behind the last match
LexEnd ==
    /\ lx_pc = "scan"
    /\ NextMatchStart(lx_line, prev_end) = -1
    /\ IF prev_end # Len(lx_line)
       THEN /\ lx_pc' = "Exception"
            /\ UNCHANGED lx_tokens
       ELSE /\ lx_pc' = "returned"
            /\ lx_tokens' = Append(lx_tokens, Token("T_EOL", "None"))
    /\ UNCHANGED <<lx_line, prev_end, lx_seq, tok_val>>
    /\ UNCHANGED notLex

NextLex ==
    \/ LexMatch
    \/ LexEnd

SpecLex == InitLex /\ [][NextLex]_vars

\* ------------------------------------------------------------------------
\* C18: the failures of the tokenizer
\* ------------------------------------------------------------------------
\* the positions (from 1) of the characters that no pattern matches
Unmatched(line) == {i \in 1..Len(line) : ~Matches(line, i)}

\* the first run of characters that no pattern matches
FirstUnmatchedRun(line) ==
    LET first == CHOOSE i \in Unmatched(line) : \A j \in Unmatched(line) : i <= j
        last == CHOOSE k \in first..Len(line) :
                    /\ \A j \in first..k : j \in Unmatched(line)
                    /\ (k = Len(line) \/ (k + 1) \notin Unmatched(line))
    IN SubSeq(line, first, last)

LexEnded == lx_pc \in {"returned", "InvalidSequence", "Exception"}

\* C18: whenever a line contains a run of characters that no token pattern
\* matches, at any position of the line including its end, tokenization
\* fails with InvalidSequence carrying the offending substring; the
\* tokenizer raises no other kind of fatal error
C18_OnlyInvalidSequence ==
    /\ lx_pc # "Exception"
    /\ (LexEnded /\ Unmatched(lx_line) # {}) =>
          /\ lx_pc = "InvalidSequence"
          /\ lx_seq = FirstUnmatchedRun(lx_line)

\* ------------------------------------------------------------------------
\* C19: the number of globals after a reload (linker.py:190-200,
\* code_gen.py:795-799)
\* ------------------------------------------------------------------------
\* write_out, line 799
WriteOutNGlobals == Len(scopes[1].variables)

\* write_out, lines 826-842: the ops behind .entry are the main code
RECURSIVE CodeLines(_, _)
CodeLines(gen, main_code) ==
    IF gen = <<>> THEN <<>>
    ELSE IF Head(gen).op = ".entry" THEN CodeLines(Tail(gen), TRUE)
    ELSE IF main_code THEN <<Head(gen)>> \o CodeLines(Tail(gen), main_code)
    ELSE CodeLines(Tail(gen), main_code)

\* read_code, lines 196-199, over the lines of the .entry section; a fresh
\* CompiledModule has n_globals = 0
RECURSIVE ReadCodeNGlobals(_, _)
ReadCodeNGlobals(code, n) ==
    IF code = <<>> THEN n
    ELSE LET op_parts == Head(code)
             var_num == op_parts.arg.v + 1
         IN IF op_parts.op = OP_STORE /\ var_num > n
            THEN ReadCodeNGlobals(Tail(code), var_num)
            ELSE ReadCodeNGlobals(Tail(code), n)

ReloadedNGlobals == ReadCodeNGlobals(CodeLines(generated, FALSE), 0)

\* C19: for every module compiled and saved, the n_globals computed on
\* reload (the largest store argument of the .entry section plus one)
\* equals the number of variables of the global scope of the code
\* generator, shared variables included
C19_ReloadedNGlobals ==
    cg_pc = "done" => ReloadedNGlobals = WriteOutNGlobals

\* ------------------------------------------------------------------------
\* A run of the generated main code: the ops an if statement is compiled to
\* (spec.md, opcode mnemonic set and control flow; code_gen.py:431-445,
\* 461-493)
\* ------------------------------------------------------------------------
\* what the two operands of a comparison are to each other
Rel == {"lt", "eq", "gt"}

\* what a condition that is no comparison evaluates to
Bools == {"true", "false"}

\* l op r, for operands that are rel to each other
Holds(op, rel) ==
    CASE op = "<" -> rel = "lt"
      [] op = "<=" -> rel \in {"lt", "eq"}
      [] op = ">" -> rel = "gt"
      [] op = ">=" -> rel \in {"gt", "eq"}
      [] op = "==" -> rel = "eq"
      [] op = "!=" -> rel # "eq"

\* the environments of an if statement: one value per condition
Envs(node) ==
    {env \in [1..Len(node.cond_branches) -> Rel \cup Bools] :
        \A k \in 1..Len(node.cond_branches) :
            (env[k] \in Bools) <=> (node.cond_branches[k] = "id")}

\* the truth of the k-th condition in the source
CondTrue(node, env, k) ==
    IF node.cond_branches[k] = "id" THEN env[k] = "true"
    ELSE Holds(node.cond_branches[k], env[k])

CondJumps == {JMP_OPCODES(op) : op \in CmpOps}

JmpCmp(jmp_op) == CHOOSE op \in CmpOps : JMP_OPCODES(op) = jmp_op

\* the condition a conditional jump belongs to: emit_if_cond is called once
\* per condition, in declaration order
CondOfJump(code, p) ==
    Cardinality({q \in 1..p : code[q].op \in CondJumps})

LabelPos(code, lbl) ==
    CHOOSE q \in 1..Len(code) : code[q] = [op |-> "label:", arg |-> lbl]

EntryPos(code) == CHOOSE q \in 1..Len(code) : code[q].op = ".entry"

IfNode == visited.ifs[1]

\* a conditional jump pops r and l and jumps when l op r holds; against
\* the constant true or false, l is the value of the condition itself
JumpTaken(jmp_op, l, r, env_k) ==
    IF r.t = "str"
    THEN jmp_op = "jmpeq" /\ env_k = r.v
    ELSE Holds(JmpCmp(jmp_op), env_k)

\* the operands on the stack are those the condition's value is about
JumpDefined(l, r, env_k) ==
    IF r.t = "str" THEN r.v \in Bools /\ env_k \in Bools
    ELSE env_k \in Rel

\* the main code of a compiled module starts behind .entry
RunStart ==
    /\ cg_pc = "done"
    /\ vm_pc = "idle"
    /\ Len(visited.ifs) = 1
    /\ vm_pc' = "running"
    /\ vm_ip' = EntryPos(generated) + 1
    /\ vm_env' \in Envs(IfNode)
    /\ UNCHANGED <<vm_stack, vm_out, vm_evals>>
    /\ UNCHANGED notRun

Running(ops) ==
    /\ vm_pc = "running"
    /\ vm_ip <= Len(generated)
    /\ generated[vm_ip].op \in ops

\* load, load.const: push the argument
RunLoad ==
    /\ Running({OP_LOAD, OP_LDCONST})
    /\ vm_stack' = Append(vm_stack, generated[vm_ip].arg)
    /\ vm_ip' = vm_ip + 1
    /\ UNCHANGED <<vm_pc, vm_out, vm_evals, vm_env>>
    /\ UNCHANGED notRun

\* emit: pop a value and write it out
RunEmit ==
    /\ Running({"emit"})
    /\ IF vm_stack = <<>>
       THEN /\ vm_pc' = "stuck"
            /\ UNCHANGED <<vm_ip, vm_stack, vm_out>>
       ELSE /\ vm_out' = Append(vm_out, vm_stack[Len(vm_stack)])
            /\ vm_stack' = SubSeq(vm_stack, 1, Len(vm_stack) - 1)
            /\ vm_ip' = vm_ip + 1
            /\ UNCHANGED vm_pc
    /\ UNCHANGED <<vm_evals, vm_env>>
    /\ UNCHANGED notRun

\* jmp<cmp>: pop two operands, compare, jump or fall through
RunCondJump ==
    /\ Running(CondJumps)
    /\ LET k == CondOfJump(generated, vm_ip)
           n == Len(vm_stack)
       IN IF n < 2 \/ k > Len(vm_env)
          THEN /\ vm_pc' = "stuck"
               /\ UNCHANGED <<vm_ip, vm_stack, vm_evals>>
          ELSE IF ~JumpDefined(vm_stack[n - 1], vm_stack[n], vm_env[k])
          THEN /\ vm_pc' = "stuck"
               /\ UNCHANGED <<vm_ip, vm_stack, vm_evals>>
          ELSE /\ vm_stack' = SubSeq(vm_stack, 1, n - 2)
               /\ vm_evals' = Append(vm_evals, k)
               /\ vm_ip' = IF JumpTaken(generated[vm_ip].op, vm_stack[n - 1],
                                        vm_stack[n], vm_env[k])
                           THEN LabelPos(generated, generated[vm_ip].arg)
                           ELSE vm_ip + 1
               /\ UNCHANGED vm_pc
    /\ UNCHANGED <<vm_out, vm_env>>
    /\ UNCHANGED notRun

\* jmp: continue at the label
RunJump ==
    /\ Running({"jmp"})
    /\ vm_ip' = LabelPos(generated, generated[vm_ip].arg)
    /\ UNCHANGED <<vm_pc, vm_stack, vm_out, vm_evals, vm_env>>
    /\ UNCHANGED notRun

\* a label is no operation
RunLabel ==
    /\ Running({"label:"})
    /\ vm_ip' = vm_ip + 1
    /\ UNCHANGED <<vm_pc, vm_stack, vm_out, vm_evals, vm_env>>
    /\ UNCHANGED notRun

\* the end of the main code
RunHalt ==
    /\ vm_pc = "running"
    /\ vm_ip > Len(generated)
    /\ vm_pc' = "halted"
    /\ UNCHANGED <<vm_ip, vm_stack, vm_out, vm_evals, vm_env>>
    /\ UNCHANGED notRun

\* generate() on a module of one if statement over a shared variable,
\* followed by a run of its main code
NextRun ==
    \/ DirectiveUse
    \/ StmtIf
    \/ FinishGenerate
    \/ RunStart
    \/ RunLoad
    \/ RunEmit
    \/ RunCondJump
    \/ RunJump
    \/ RunLabel
    \/ RunHalt

SpecRun == InitGen /\ [][NextRun]_vars

\* ------------------------------------------------------------------------
\* C20: the jump chain of an if statement runs the first true branch
\* ------------------------------------------------------------------------
\* the first condition that is true, 0 when none is
FirstTrue(node, env) ==
    LET true == {k \in 1..Len(node.cond_branches) : CondTrue(node, env, k)}
    IN IF true = {} THEN 0 ELSE CHOOSE k \in true : \A j \in true : k <= j

\* what running the if statement of the source emits
BodiesRun(node, env) ==
    LET first == FirstTrue(node, env)
    IN IF first > 0 THEN <<NumArg(BodyValue(first))>>
       ELSE IF node.else_branch THEN <<NumArg(BodyValue(0))>>
       ELSE <<>>

\* the conditions the source evaluates, in order
CondsEvaluated(node, env) ==
    LET first == FirstTrue(node, env)
        last == IF first > 0 THEN first ELSE Len(node.cond_branches)
    IN [k \in 1..last |-> k]

IsIfEnd(op) == op.op = "label:" /\ op.arg.kind = "IF_END"

\* C20: executing the jump chain generated for an if statement with n >= 1
\* branches, with or without else, with any mix of comparison and
\* non-comparison conditions, evaluates the conditions in declaration
\* order, runs exactly the body of the first branch whose condition is true
\* (the else body if none is true and there is an else, nothing otherwise)
\* and no other body, and then reaches the IF_END label: the run never gets
\* stuck, every step moves forward, the last op it passes is the IF_END
\* label
C20_FirstTrueBranchRuns ==
    /\ [](vm_pc # "stuck")
    /\ [](vm_pc \in {"running", "halted"} =>
            /\ IsIfEnd(generated[Len(generated)])
            /\ vm_ip <= Len(generated) + 1
            /\ IsSubSeq(vm_out, BodiesRun(IfNode, vm_env))
            /\ \A i \in 1..Len(vm_evals) : vm_evals[i] = i)
    /\ [](vm_pc = "halted" =>
            /\ vm_ip = Len(generated) + 1
            /\ vm_evals = CondsEvaluated(IfNode, vm_env)
            /\ vm_out = BodiesRun(IfNode, vm_env)
            /\ vm_stack = <<>>)
    /\ [][vm_pc = "running" /\ vm_pc' = "running" => vm_ip' > vm_ip]_vars

\* an if statement of three branches, comparisons and a plain condition
\* mixed, whose second branch has run
C20_Witness ==
    /\ vm_pc = "halted"
    /\ Len(IfNode.cond_branches) = 3
    /\ IfNode.cond_branches[1] = "id"
    /\ IfNode.cond_branches[2] \in CmpOps
    /\ ~IfNode.else_branch
    /\ FirstTrue(IfNode, vm_env) = 2
    /\ vm_out = <<NumArg(BodyValue(2))>>

\* ------------------------------------------------------------------------
\* C21: the variables of a scope
\* ------------------------------------------------------------------------
\* the indices of a scope are 0..n-1: no name holds two positions
DenseIndices(scope) ==
    \A i, j \in 1..Len(scope.variables) :
        scope.variables[i] = scope.variables[j] => i = j

LocalOrOuter(scope) == Range(scope.variables) \cap scope.outer_var_refs = {}

\* C21: at every point of code generation and for every scope, the variable
\* indices are exactly 0..n-1 in order of first binding, and no name is at
\* the same time a local variable of the scope and a member of its
\* outer-reference set
C21_ScopeVariables ==
    \A s \in 1..Len(scopes) :
        /\ DenseIndices(scopes[s])
        /\ LocalOrOuter(scopes[s])

\* ------------------------------------------------------------------------
\* C22: a deferred reference that no scope resolves
\* ------------------------------------------------------------------------
\* C22: when a deferred variable reference is found in no scope on the
\* parent chain of its emit-time scope, code generation fails with a
\* CodeGenError whose message carries the source line number of the
\* deferred op, and no module is produced
C22_UnresolvedCarriesLine ==
    /\ cg_pc = "done" =>
          \A p \in 1..Len(generated) :
              generated[p].op \notin {"!load.!", "!store.!"}
    /\ (cg_pc = "error" /\ raised.type = "CodeGenError"
           /\ raised.message = "Referenced variable not found!") =>
          raised.src_info.text = "Line"

\* the part of C22 that holds: an unresolved reference ends generate() with
\* a CodeGenError, and a module is produced only with every deferred op
\* rewritten
UnresolvedFails ==
    /\ cg_pc = "done" =>
          \A p \in 1..Len(generated) :
              generated[p].op \notin {"!load.!", "!store.!"}
    /\ (cg_pc = "error" /\ ~AllRefsFound(CG)) => raised.type = "CodeGenError"

\* ------------------------------------------------------------------------
\* break and continue (code_gen.py:30-36, 536-548; l_parser.py:582-592)
\* ------------------------------------------------------------------------
MaxDepth == 3    \* the depth literal after break / continue
MaxCtls == 1     \* break / continue statements of one module

\* parse_stmt, lines 582-592: the depth is int() of the number literal,
\* 1 without a literal
Depths == 0..MaxDepth

\* Scope.get_loop_id, lines 30-36; self.loops[-0] is self.loops[0], and an
\* index into an empty list raises IndexError
GetLoopId(scope, depth) ==
    IF Len(scope.loops) >= depth
    THEN IF depth = 0
         THEN IF scope.loops = <<>> THEN [raises |-> "IndexError"]
              ELSE [raises |-> "", id |-> scope.loops[1]]
         ELSE [raises |-> "", id |-> scope.loops[Len(scope.loops) - depth + 1]]
    ELSE [raises |-> "", id |-> NoIdx]

\* visit_loop_ctl, lines 536-548
VisitLoopCtl(cg, node) ==
    LET loop_id == GetLoopId(GetScope(cg), node.depth)
    IN IF loop_id.raises # ""
       THEN [cg |-> cg, ok |-> FALSE, raised |-> [type |-> loop_id.raises]]
       ELSE IF loop_id.id = NoIdx
       THEN [cg |-> cg, ok |-> FALSE,
             raised |-> CodeGenError(node,
                           "Can not break or continue outside the loop!")]
       ELSE [cg |-> Emit(cg, "jmp",
                         LblArg(IF node.continuing THEN "FOR_COND"
                                ELSE "FOR_END", loop_id.id)),
             ok |-> TRUE, raised |-> None]

\* a break or continue statement of the current block
StmtLoopCtl ==
    /\ cg_pc \in {"directives", "defs", "main", "func_head", "func_body"}
    /\ Len(visited.ctls) < MaxCtls
    /\ \E depth \in Depths, continuing \in BOOLEAN :
          LET c0 == AtStatement
              node == [line |-> visited.stmts + 1, depth |-> depth,
                       continuing |-> continuing]
              r == VisitLoopCtl(c0, node)
          IN /\ SetCG(r.cg)
             /\ visited' = [visited EXCEPT !.ctls = Append(@,
                               [depth |-> depth, continuing |-> continuing,
                                loops |-> GetScope(c0).loops,
                                at |-> Len(c0.generated),
                                ops |-> Len(r.cg.generated) - Len(c0.generated)])]
             /\ IF r.ok
                THEN /\ cg_pc' = IF InFunction THEN "func_body" ELSE "main"
                     /\ UNCHANGED raised
                ELSE /\ cg_pc' = "error"
                     /\ raised' = r.raised
    /\ UNCHANGED notGen

\* generate() on a module of for-each loops with break and continue
NextLoop ==
    \/ EnterForEachLoop
    \/ LeaveForEachLoop
    \/ StmtLoopCtl
    \/ FinishGenerate

SpecLoop == InitGen /\ [][NextLoop]_vars

\* ------------------------------------------------------------------------
\* C23: the jump of break and continue
\* ------------------------------------------------------------------------
\* the statement has at least depth active loops around it, depth >= 1
CtlInLoops(ctl) == ctl.depth >= 1 /\ Len(ctl.loops) >= ctl.depth

\* the jump to the depth-th enclosing loop, counted from the innermost
CtlJump(ctl) ==
    Op("jmp", LblArg(IF ctl.continuing THEN "FOR_COND" ELSE "FOR_END",
                     ctl.loops[Len(ctl.loops) - ctl.depth + 1]))

CtlCompiled(ctl) ==
    IF CtlInLoops(ctl)
    THEN /\ ctl.ops = 1
         /\ Len(generated) > ctl.at
         /\ generated[ctl.at + 1] = CtlJump(ctl)
    ELSE /\ ctl.ops = 0
         /\ cg_pc = "error"
         /\ raised.type = "CodeGenError"

\* C23: for every depth the parser can produce, break emits jmp FOR_END_N
\* and continue emits jmp FOR_COND_N, N the id of the depth-th enclosing
\* loop counted from the innermost, when the scope has at least depth
\* active loops and depth >= 1; in every other case code generation fails
\* with CodeGenError and emits no jmp
C23_LoopCtlJump ==
    \A i \in 1..Len(visited.ctls) : CtlCompiled(visited.ctls[i])

\* ------------------------------------------------------------------------
\* Tokenizer.interpolate_string (tokenizer.py:72, 115-131, 167-177)
\* ------------------------------------------------------------------------
MaxStrLen == 6    \* characters between the quotes of a string literal

StrChars == {"a", "$", "{", "}"}

\* the string tokens: what "[^"]*" matched, quotes included
StringTokens ==
    {<<"\"">> \o c \o <<"\"">> :
        c \in UNION {[1..n -> StrChars] : n \in 0..MaxStrLen}}

EndsWith(s, suffix) ==
    /\ Len(s) >= Len(suffix)
    /\ SubSeq(s, Len(s) - Len(suffix) + 1, Len(s)) = suffix

\* TMPL_STRING_SUB, \$\{[^}]+\}, matches at position i
SpliceAt(s, i) ==
    /\ i + 2 <= Len(s)
    /\ s[i] = "$"
    /\ s[i + 1] = "{"
    /\ s[i + 2] # "}"
    /\ \E j \in (i + 3)..Len(s) : s[j] = "}"

\* the position of the first } at or behind position j
RECURSIVE SpliceEnd(_, _)
SpliceEnd(s, j) == IF s[j] = "}" THEN j ELSE SpliceEnd(s, j + 1)

\* expander, lines 118-119: '" & (%s) & "' % match.group()[2: -1]
Expander(match) ==
    <<"\"", " ", "&", " ", "(">> \o SubSeq(match, 3, Len(match) - 1)
        \o <<")", " ", "&", " ", "\"">>

\* re.sub(self.re_sub, expander, string), from position i
RECURSIVE ReSub(_, _)
ReSub(s, i) ==
    IF i > Len(s) THEN <<>>
    ELSE IF SpliceAt(s, i)
    THEN LET end == SpliceEnd(s, i + 3)
         IN Expander(SubSeq(s, i, end)) \o ReSub(s, end + 1)
    ELSE <<s[i]>> \o ReSub(s, i + 1)

EMPTY_LEFT == <<"\"", "\"", " ", "&", " ">>

EMPTY_RIGHT == <<" ", "&", " ", "\"", "\"">>

\* interpolate_string, lines 121-128: the text that is tokenized again
InnerExpr(string) ==
    LET transformed_str == ReSub(string, 1)
        i1 == IF StartsWith(transformed_str, EMPTY_LEFT)
              THEN SubSeq(transformed_str, 5, Len(transformed_str))
              ELSE transformed_str
    IN IF EndsWith(transformed_str, EMPTY_RIGHT)
       THEN SubSeq(transformed_str, 1, Len(transformed_str) - 5)
       ELSE i1

InitStr ==
    /\ lx_pc = "string"
    /\ lx_line = <<>>
    /\ prev_end = 0
    /\ lx_tokens = <<>>
    /\ lx_seq = <<>>
    /\ tok_val \in StringTokens
    /\ IdleLink
    /\ IdleSave
    /\ IdleGen
    /\ IdleParse
    /\ IdleTok
    /\ IdleRun

\* lines 168-175 for a string token: the token itself when it has no
\* splice, else tokenize_line(inner_expr, True)
InterpolateString ==
    /\ lx_pc = "string"
    /\ IF ReSub(tok_val, 1) = tok_val
       THEN /\ lx_pc' = "returned"
            /\ lx_tokens' = <<Token("T_STRING", tok_val)>>
            /\ UNCHANGED lx_line
       ELSE /\ lx_pc' = "scan"
            /\ lx_line' = InnerExpr(tok_val)
            /\ UNCHANGED lx_tokens
    /\ UNCHANGED <<prev_end, lx_seq, tok_val>>
    /\ UNCHANGED notLex

NextStr ==
    \/ InterpolateString
    \/ LexMatch
    \/ LexEnd

SpecStr == InitStr /\ [][NextStr]_vars

\* ------------------------------------------------------------------------
\* C24: the empty edges of an interpolated string
\* ------------------------------------------------------------------------
Interpolated == lx_pc # "string" /\ ReSub(tok_val, 1) # tok_val

ONE_SPLICE == <<"\"", "$", "{", "a", "}", "\"">>

\* C24: when a string literal with splices is rewritten, an empty left edge
\* (the prefix "" &) and an empty right edge (the suffix & "") are both
\* removed before the text is tokenized again, in every combination; a
\* literal that is exactly one splice yields the tokens of (expr) and no
\* string token
C24_EmptyEdgesRemoved ==
    /\ Interpolated =>
          /\ ~StartsWith(lx_line, EMPTY_LEFT)
          /\ ~EndsWith(lx_line, EMPTY_RIGHT)
    /\ (lx_pc = "returned" /\ tok_val = ONE_SPLICE) =>
          \A i \in 1..Len(lx_tokens) : lx_tokens[i].type # "T_STRING"

\* the part of C24 that holds: an empty edge is removed when the other
\* edge is not empty
OneEmptyEdgeRemoved ==
    Interpolated =>
        LET transformed_str == ReSub(tok_val, 1)
        IN ~(StartsWith(transformed_str, EMPTY_LEFT)
               /\ EndsWith(transformed_str, EMPTY_RIGHT)) =>
              /\ ~StartsWith(lx_line, EMPTY_LEFT)
              /\ ~EndsWith(lx_line, EMPTY_RIGHT)

\* ------------------------------------------------------------------------
\* C25: the data indices of load.const after linking
\* ------------------------------------------------------------------------
\* the code units of a module: the code of every function and the main code
CodeUnits(m) ==
    {m.functions[i].code : i \in 1..Len(m.functions)} \cup {m.code_lines}

\* the module an op of the linked code comes from: each load.const of a
\* provided module is followed by a call of its own function f, whose name
\* the first transform qualifies with the module's name
OriginOf(code, i) ==
    IF code[i + 1].arg.mod = "" THEN main_mod.name ELSE code[i + 1].arg.mod

\* before linking, load.const 0 of module nm designates the record <<nm>>
DataRecordOf(nm) == ProvidedModule(nm, <<>>, 0, 1).const_data[1]

IsDataLoad(item) == item.op = OP_LDCONST /\ item.arg.t = "int"

\* C25: after link() every load.const with an all-digits argument p, in
\* function code and in main code, designates at position p of the result's
\* data section the data record it designated in its own module before
\* linking, and p is less than the length of the result's data section
C25_DataIndexRelocated ==
    lk_pc = "done" =>
        \A code \in CodeUnits(linked) :
            \A i \in 1..Len(code) :
                IsDataLoad(code[i]) =>
                    /\ code[i].arg.v < Len(linked.const_data)
                    /\ linked.const_data[code[i].arg.v + 1]
                          = DataRecordOf(OriginOf(code, i))

\* three modules are linked and the main code of the main module loads
\* the data record at position 2
C25_Witness ==
    /\ lk_pc = "done"
    /\ Len(fetched) = 2
    /\ Len(linked.const_data) = 3
    /\ \E i \in 1..Len(linked.code_lines) :
          /\ IsDataLoad(linked.code_lines[i])
          /\ linked.code_lines[i].arg.v = 2
          /\ OriginOf(linked.code_lines, i) = "main"

\* ------------------------------------------------------------------------
\* return, and functions whose body ends in a return, an if or a loop
\* (code_gen.py:550-576)
\* ------------------------------------------------------------------------
\* visit_return, lines 571-576, of  return  and of  return <number>
VisitReturn(cg, has_result) ==
    Emit(IF has_result THEN VisitSimpleLiteral(cg, "1.0") ELSE cg, "ret", None)

StmtReturn ==
    /\ StatementVisited
    /\ \E has_result \in BOOLEAN : SetCG(VisitReturn(AtStatement, has_result))

\* the if statements of one branch, a comparison or a plain condition
ShortIfNodes ==
    {node \in IfNodes : /\ Len(node.cond_branches) = 1
                        /\ node.cond_branches[1] \in {"<", "id"}}

\* visit_if_statement of an if statement of one branch
StmtShortIf ==
    /\ cg_pc \in {"directives", "defs", "main", "func_head", "func_body"}
    /\ Len(visited.ifs) < MaxIfs
    /\ \E node \in ShortIfNodes :
          /\ SetCG(VisitIfStatement(AtStatement, node))
          /\ visited' = [visited EXCEPT !.ifs = Append(@, node)]
    /\ cg_pc' = IF InFunction THEN "func_body" ELSE "main"
    /\ UNCHANGED raised
    /\ UNCHANGED notGen

\* generate() on a module of functions with returns, if statements and
\* for-each loops
NextFn ==
    \/ EnterFuncDef
    \/ LeaveFuncDef
    \/ StmtReturn
    \/ StmtShortIf
    \/ EnterForEachLoop
    \/ LeaveForEachLoop
    \/ FinishGenerate

SpecFn == InitGen /\ [][NextFn]_vars

\* ------------------------------------------------------------------------
\* C26: every function record ends in ret
\* ------------------------------------------------------------------------
EndsInRet(code) == code # <<>> /\ code[Len(code)].op = "ret"

\* C26: in every module produced by generate(), every function record has a
\* non-empty op list whose last op is ret, for every function body (empty,
\* ending in return, ending in an if or a loop, or following another
\* function that ended in ret)
C26_FunctionsEndInRet ==
    cg_pc \in {"defs", "main", "done"} =>
        LET functions == FunctionRecords(generated, <<>>)
        IN \A i \in 1..Len(functions) : EndsInRet(functions[i].code)

\* a function whose body is  return 1  followed by a function with an
\* empty body: one ret each
C26_Witness ==
    /\ cg_pc = "done"
    /\ LET functions == FunctionRecords(generated, <<>>)
       IN /\ Len(functions) = 2
          /\ functions[1].code = <<Op(OP_LOAD, NumArg("1.0")), Op("ret", None)>>
          /\ functions[2].code = <<Op("ret", None)>>

\* ------------------------------------------------------------------------
\* C27: the slots of the shared variables after linking
\* ------------------------------------------------------------------------
\* the number of globals module nm was compiled with
GlobalsOf(nm) ==
    IF nm = main_mod.name THEN main_mod.n_globals
    ELSE (CHOOSE f \in Range(fetched) : f.name = nm).n_globals

\* the positions of the main code of the result where the main code of
\* module nm calls its function f: the op two places before is the
\* load.global of the module's last global
MainCallsOf(m, nm) ==
    {i \in 3..(Len(m.code_lines) - 1) :
        /\ m.code_lines[i] = Op(OP_LDCONST, m.code_lines[i].arg)
        /\ m.code_lines[i + 1].op = OP_CALL_UDF
        /\ m.code_lines[i + 1].arg.fn = "f"
        /\ OriginOf(m.code_lines, i) = nm
        /\ m.code_lines[i - 1].op = OP_LDGLOBAL}

\* the slots of the composite frame that the main code of module nm uses
\* for its global 0
SlotsOfFirstGlobal(m, nm) ==
    {m.code_lines[i - 1].arg.v - (GlobalsOf(nm) - 1) : i \in MainCallsOf(m, nm)}

\* C27: in the module link() returns, the shared-variable list is in
\* declaration order and the indices of the shared variables begin at zero
\* of the global frame: the i-th name of the list occupies global slot i of
\* the composite frame, also when a merged dependency has globals of its
\* own
C27_SharedSlotsFromZero ==
    (lk_pc = "done" /\ \A f \in Range(fetched) : f.name # main_mod.name) =>
        \A i \in 1..Len(linked.shared_vars) :
            SlotsOfFirstGlobal(linked, linked.shared_vars[i][1]) = {i - 1}

\* ------------------------------------------------------------------------
\* C28: every reachable module is in the result exactly once
\* ------------------------------------------------------------------------
\* the modules reachable from the main module: the main module and every
\* module the linker fetched for it
ReachableModules == {main_mod.name} \cup {f.name : f \in Range(fetched)}

\* the function records of the result that hold function f of module nm
FunctionRecordsOf(m, nm) ==
    {k \in 1..Len(m.functions) :
        /\ m.functions[k].label.fn = "f"
        /\ (IF m.functions[k].label.mod = "" THEN main_mod.name
            ELSE m.functions[k].label.mod) = nm}

\* the places of the result's main code where the main code of module nm
\* begins its call of its own function f (load.const, call.udf f)
MainCodeOf(m, nm) ==
    {i \in 1..(Len(m.code_lines) - 1) :
        /\ m.code_lines[i].op = OP_LDCONST
        /\ m.code_lines[i + 1].op = OP_CALL_UDF
        /\ m.code_lines[i + 1].arg.fn = "f"
        /\ OriginOf(m.code_lines, i) = nm}

\* the module whose main code is the last part of the result's main code
LastMainCode(m) ==
    LET all == UNION {MainCodeOf(m, nm) : nm \in ReachableModules}
        last == CHOOSE i \in all : \A j \in all : j <= i
    IN  OriginOf(m.code_lines, last)

\* C28: in the module link() returns, the function records and the main
\* code of every module reachable from the main module appear exactly once,
\* for every import graph (a dependency importing the main module and two
\* modules importing each other included), and the main code of the main
\* module is the last part of the result's main code
C28_EachModuleOnce ==
    lk_pc = "done" =>
        /\ \A nm \in ReachableModules :
            /\ Cardinality(FunctionRecordsOf(linked, nm)) = 1
            /\ Cardinality(MainCodeOf(linked, nm)) = 1
        /\ LastMainCode(linked) = main_mod.name

\* the same for the import graphs in which no dependency imports the main
\* module: there the claim holds
EachModuleOnceUnlessMainImported ==
    (lk_pc = "done" /\ \A f \in Range(fetched) : f.name # main_mod.name) =>
        /\ \A nm \in ReachableModules :
            /\ Cardinality(FunctionRecordsOf(linked, nm)) = 1
            /\ Cardinality(MainCodeOf(linked, nm)) = 1
        /\ LastMainCode(linked) = main_mod.name

\* ------------------------------------------------------------------------
\* while loops and if expressions (code_gen.py:447-459, 495-510)
\* ------------------------------------------------------------------------
\* visit_for_while_loop, lines 498-506: up to the loop block; the condition
\* is  x <cond> 0, or  x  when cond is "id"
ForWhileHead(cg, cond) ==
    LET id == NewJmpId(cg.last_jmp_id)
        c1 == PushLoop([cg EXCEPT !.last_jmp_id = id], id)
        c2 == EmitLabel(c1, "FOR_COND", id)
        c3 == EmitIfCond(c2, cond, 1, TRUE, LblArg("FOR_LOOP", id))
        c4 == Emit(c3, "jmp", LblArg("FOR_END", id))
    IN EmitLabel(c4, "FOR_LOOP", id)

\* visit_for_while_loop, lines 507-510: after the loop block
ForWhileTail(cg) ==
    LET loops == GetScope(cg).loops
        id == loops[Len(loops)]
        c1 == Emit(cg, "jmp", LblArg("FOR_COND", id))
        c2 == EmitLabel(c1, "FOR_END", id)
    IN PopLoop(c2)

\* visit_if_expr, lines 447-459, of  if(x <cond> 0, 1, 0)
VisitIfExpr(cg, cond) ==
    LET id == NewJmpId(cg.last_jmp_id)
        c0 == [cg EXCEPT !.last_jmp_id = id]
        c1 == EmitIfCond(c0, cond, 1, TRUE, LblArg("IFE_TB", id))
        c2 == VisitSimpleLiteral(c1, "0")
        c3 == Emit(c2, "jmp", LblArg("IFE_END", id))
        c4 == EmitLabel(c3, "IFE_TB", id)
        c5 == VisitSimpleLiteral(c4, "1")
    IN EmitLabel(c5, "IFE_END", id)

\* the conditions of the loops and if expressions: a comparison, or a
\* value that is no comparison
LoopConds == {"<", "id"}

\* the statement  for <cond>  up to its block
EnterForWhileLoop ==
    /\ cg_pc \in {"directives", "defs", "main", "func_head", "func_body"}
    /\ visited.stmts < MaxStmts
    /\ \E cond \in LoopConds : SetCG(ForWhileHead(AtStatement, cond))
    /\ cg_pc' = IF InFunction THEN "func_body" ELSE "main"
    /\ visited' = [visited EXCEPT !.stmts = @ + 1,
                                  !.whiles = @ \cup {NewJmpId(last_jmp_id)}]
    /\ UNCHANGED raised
    /\ UNCHANGED notGen

\* the end of the block of a while loop
LeaveForWhileLoop ==
    /\ cg_pc \in {"main", "func_body"}
    /\ GetScope(CG).loops # <<>>
    /\ GetScope(CG).loops[Len(GetScope(CG).loops)] \in visited.whiles
    /\ SetCG(ForWhileTail(CG))
    /\ UNCHANGED <<cg_pc, visited, raised>>
    /\ UNCHANGED notGen

\* the statement  emit if(x <cond> 0, 1, 0)
StmtEmitIfExpr ==
    /\ StatementVisited
    /\ \E cond \in LoopConds :
          SetCG(Emit(VisitIfExpr(AtStatement, cond), "emit", None))

\* visit_func_def up to the function block, of a function f without
\* parameters
EnterFuncNoParams ==
    /\ cg_pc \in {"directives", "defs"}
    /\ visited.funcs < MaxFuncs
    /\ LET c0 == IF cg_pc = "directives" THEN Emit(CG, ".defs", None) ELSE CG
       IN SetCG(FuncDefHead(c0, "f", <<>>, "None"))
    /\ visited' = [visited EXCEPT !.funcs = @ + 1,
                                  !.uses = 0,
                                  !.named = Len(scopes) + 1,
                                  !.encl = Append(@, 1)]
    /\ cg_pc' = "func_head"
    /\ UNCHANGED raised
    /\ UNCHANGED notGen

\* visit_bind_extern_var of a use directive at the top of the root block
UseAtTop ==
    /\ cg_pc = "directives"
    /\ DirectiveUse

\* generate() with the first random id
InitJmp ==
    /\ InitGen
    /\ last_jmp_id = SeedJmpId(1)

\* generate() on a module of use directives, functions, loops of both
\* kinds, break and continue, if statements and if expressions
NextJmp ==
    \/ UseAtTop
    \/ EnterFuncNoParams
    \/ LeaveFuncDef
    \/ EnterForWhileLoop
    \/ LeaveForWhileLoop
    \/ EnterForEachLoop
    \/ LeaveForEachLoop
    \/ StmtLoopCtl
    \/ StmtShortIf
    \/ StmtEmitIfExpr
    \/ FinishGenerate

SpecJmp == InitJmp /\ [][NextJmp]_vars

\* ------------------------------------------------------------------------
\* C29: every jump has its label, once, in its own code unit
\* ------------------------------------------------------------------------
JumpOps == {"jmp", "jmpeq", "jmpne", "jmplt", "jmple", "jmpgt", "jmpge"}

\* write_out, lines 830-842: the ops behind the .entry marker
RECURSIVE MainCodeLines(_)
MainCodeLines(gen) ==
    IF gen = <<>> THEN <<>>
    ELSE IF Head(gen).op = ".entry" THEN Tail(gen)
    ELSE MainCodeLines(Tail(gen))

\* the code units of the module written out: the function records and the
\* main code
UnitsOf(gen) ==
    LET functions == FunctionRecords(gen, <<>>)
    IN {functions[i].code : i \in 1..Len(functions)} \cup {MainCodeLines(gen)}

\* the places of code where the label is defined
DefinedAt(code, label) ==
    {j \in 1..Len(code) : code[j] = [op |-> "label:", arg |-> label]}

\* C29: in every module generate() produces, the target label of every
\* jump op is defined exactly once, and in the code unit (function record
\* or main code) of the jump: for the jumps of if statements, if
\* expressions, loops, and break / continue at a valid depth
C29_JumpTargetsDefined ==
    cg_pc = "done" =>
        \A unit \in UnitsOf(generated) :
            \A i \in 1..Len(unit) :
                unit[i].op \in JumpOps =>
                    /\ Cardinality(DefinedAt(unit, unit[i].arg)) = 1
                    /\ Cardinality(DefinedAt(generated, unit[i].arg)) = 1

\* a module whose function has a while loop left by break and whose main
\* code emits an if expression
C29_Witness ==
    /\ cg_pc = "done"
    /\ visited.whiles # {}
    /\ \E i \in 1..Len(visited.ctls) :
          /\ visited.ctls[i].ops = 1
          /\ ~visited.ctls[i].continuing
    /\ LET functions == FunctionRecords(generated, <<>>)
       IN \E i \in 1..Len(functions) :
             \E j \in 1..Len(functions[i].code) :
                 /\ functions[i].code[j].op = "jmp"
                 /\ functions[i].code[j].arg.kind = "FOR_END"
                 /\ j < Len(functions[i].code)
                 /\ functions[i].code[j + 1].op = "jmp"
                 /\ functions[i].code[j + 1].arg.kind = "FOR_COND"
    /\ \E j \in 1..Len(MainCodeLines(generated)) :
          /\ MainCodeLines(generated)[j].op \in JumpOps
          /\ MainCodeLines(generated)[j].arg.kind = "IFE_TB"

\* ------------------------------------------------------------------------
\* C30: the unwind level of load.outer and store.outer
\* ------------------------------------------------------------------------
IsOuterOp(item) == item.op \in {"load.outer", "store.outer"}

\* C30: every load.outer u:i and store.outer u:i that
\* resolve_outer_scope_vars produces has u >= 1: it designates a variable
\* of a strict ancestor scope, never one of the scope the op was emitted
\* in, also when a function reads a name before the statement that first
\* assigns it locally
C30_OuterLevelAtLeastOne ==
    cg_pc = "done" =>
        \A p \in 1..Len(generated) :
            IsOuterOp(generated[p]) => generated[p].arg.u >= 1

====
